---- MODULE Spec2Model ----
(***************************************************************************)
(* A model of rusty_nes: the cartridge loader (cart.rs), the bus           *)
(* (system.rs), the peripheral stubs (ppu.rs, apu.rs) and the CPU          *)
(* (cpu.rs), with main.rs as the caller that builds a CPU and steps it.    *)
(*                                                                         *)
(* Three specifications share the variables:                               *)
(*   SpecCart  load_to_cart applied to a ROM file                          *)
(*   SpecBus   System::new, then read_byte / write_byte / read_word        *)
(*   Spec      main: CPU::new, then run_opcode in a loop                   *)
(***************************************************************************)
EXTENDS Integers, Sequences, FiniteSets, TLC

VARIABLES
    overflow_checks,  \* the build checks integer overflow (dev profile) or wraps (release)
    file,             \* the ROM file named on the command line
    loaded,           \* what load_to_cart returned (SpecCart)
    system,           \* System { scratch_ram, ppu, apu, cart }
    cpu,              \* the CPU's own fields
    status,           \* where the caller stands: "start", "running", "panicked", an error
    ret,              \* the last bus call and what it returned (SpecBus)
    stdout,           \* the lines debug_opcode printed
    steps             \* run_opcode calls made by main's loop

vars == <<overflow_checks, file, loaded, system, cpu, status, ret, stdout, steps>>

(***************************************************************************)
(* Bounds of the model.                                                    *)
(***************************************************************************)
\* run_opcode calls explored per run (main makes 99)
MaxSteps == 5
\* largest program-page count of a ROM file (header byte 4)
MaxPrg == 2
\* largest graphics-page count of a ROM file (header byte 5)
MaxChr == 1
\* calls of the PPU's methods explored per run
MaxPpuCalls == 5

(***************************************************************************)
(* Bit operations on naturals.                                             *)
(***************************************************************************)
RECURSIVE BitAnd(_, _)
BitAnd(m, n) ==
    IF m = 0 \/ n = 0 THEN 0
    ELSE (m % 2) * (n % 2) + 2 * BitAnd(m \div 2, n \div 2)

RECURSIVE BitOr(_, _)
BitOr(m, n) ==
    IF m = 0 THEN n
    ELSE IF n = 0 THEN m
    ELSE (IF m % 2 = 1 \/ n % 2 = 1 THEN 1 ELSE 0) + 2 * BitOr(m \div 2, n \div 2)

RECURSIVE BitXor(_, _)
BitXor(m, n) ==
    IF m = 0 THEN n
    ELSE IF n = 0 THEN m
    ELSE ((m + n) % 2) + 2 * BitXor(m \div 2, n \div 2)

\* value >> k
Shr(m, k) == m \div (2 ^ k)

(***************************************************************************)
(* The ROM file.  A file is missing, unreadable, or holds `len` bytes:     *)
(* the four magic bytes, header bytes 4..7, zeros up to byte 15, then the  *)
(* ROM body (a ramp, or one fill byte, overridden by `patch`).  Bytes at   *)
(* or past `len` do not exist.                                             *)
(***************************************************************************)
NesMagic == <<\H4e, \H45, \H53, \H1a>>

RampByte(i) == i % 251

contents(f, i) ==
    IF i < 4 THEN f.magic[i + 1]
    ELSE IF i = 4 THEN f.prg
    ELSE IF i = 5 THEN f.chr
    ELSE IF i = 6 THEN f.flags6
    ELSE IF i = 7 THEN f.flags7
    ELSE IF i < 16 THEN 0
    ELSE IF i \in DOMAIN f.patch THEN f.patch[i]
    ELSE IF f.ramp THEN RampByte(i)
    ELSE f.fill

\* contents[i] is in bounds
InBounds(f, i) == i < f.len

(***************************************************************************)
(* cart.rs                                                                 *)
(***************************************************************************)
prg_rom_page_size == 16 * 1024
chr_rom_page_size == 8 * 1024

NoCart ==
    [prg_rom |-> 0, chr_rom |-> 0, mirroring |-> "HorizontalOrMapperControlled",
     battery_present |-> FALSE, trainer_present |-> FALSE,
     hard_wired_four_screen_mode |-> FALSE, mapper |-> 0,
     prg_rom_pages |-> <<>>, chr_rom_pages |-> <<>>]

\* A page is the Vec the loader fills from contents[base .. base + len - 1];
\* it is kept as that slice of the (immutable) file.
PageByte(f, page, offset) == contents(f, page.base + offset)

\* Mutant of PrgPages: the 16-byte header is not skipped.
PrgPages_NoHeader(prg_rom, current_start) ==
    [page \in 1 .. prg_rom |->
        [base |-> (page - 1) * prg_rom_page_size,
         len  |-> prg_rom_page_size]]

\* The program-ROM loop: page `page` (0-based) is pushed byte by byte from
\* contents[current_start + page * prg_rom_page_size + offset].
PrgPages(prg_rom, current_start) ==
    [page \in 1 .. prg_rom |->
        [base |-> current_start + (page - 1) * prg_rom_page_size,
         len  |-> prg_rom_page_size]]

\* The graphics-ROM loop.
ChrPages(chr_rom, current_start) ==
    [page \in 1 .. chr_rom |->
        [base |-> current_start + (page - 1) * chr_rom_page_size,
         len  |-> chr_rom_page_size]]

\* Some index a page loop reads is out of bounds.  Indexes grow with the
\* offset, so a page reads out of bounds iff its last byte does.
PagesOutOfBounds(f, pages) ==
    \E page \in DOMAIN pages :
        ~InBounds(f, pages[page].base + pages[page].len - 1)

\* The header test `&contents[0..3] != b"NES" || contents[3] != 0x1a`:
\* "panic" (slice or index out of range), TRUE (not a ROM) or FALSE.
MagicTest(f) ==
    IF f.len < 3 THEN "panic"
    ELSE IF <<contents(f, 0), contents(f, 1), contents(f, 2)>> # SubSeq(NesMagic, 1, 3)
        THEN "not_a_rom"
    ELSE IF ~InBounds(f, 3) THEN "panic"
    ELSE IF contents(f, 3) # \H1a THEN "not_a_rom"
    ELSE "rom"

Err(tag) == [tag |-> tag, cart |-> NoCart]

load_to_cart(f) ==
    IF f.kind = "missing" THEN Err("FileNotFound")
    ELSE IF f.kind = "unreadable" THEN Err("IoError")
    ELSE IF MagicTest(f) = "panic" THEN Err("panic")
    ELSE IF MagicTest(f) = "not_a_rom" THEN Err("FileNotARom")
    ELSE IF ~InBounds(f, 4) \/ ~InBounds(f, 5) \/ ~InBounds(f, 6) \/ ~InBounds(f, 7)
        THEN Err("panic")
    ELSE
        LET prg_rom == contents(f, 4)
            chr_rom == contents(f, 5)
            mirroring ==
                IF BitAnd(contents(f, 6), \H1) = 0 THEN "HorizontalOrMapperControlled"
                ELSE IF BitAnd(contents(f, 6), \H1) = 1 THEN "Vertical"
                ELSE "HorizontalOrMapperControlled"
            battery_present == BitAnd(contents(f, 6), \H2) = \H2
            trainer_present == BitAnd(contents(f, 6), \H3) = \H3
            hard_wired_four_screen_mode == BitAnd(contents(f, 6), \H4) = \H4
            mapper == Shr(contents(f, 6), 4) + BitAnd(contents(f, 7), \Hf0)
            prg_start == 16
            prg_rom_pages == PrgPages(prg_rom, prg_start)
            chr_start == prg_start + prg_rom_page_size * prg_rom
            chr_rom_pages == ChrPages(chr_rom, chr_start)
        IN  IF PagesOutOfBounds(f, prg_rom_pages) \/ PagesOutOfBounds(f, chr_rom_pages)
                THEN Err("panic")
            ELSE [tag |-> "Ok",
                  cart |-> [prg_rom |-> prg_rom, chr_rom |-> chr_rom,
                            mirroring |-> mirroring,
                            battery_present |-> battery_present,
                            trainer_present |-> trainer_present,
                            hard_wired_four_screen_mode |-> hard_wired_four_screen_mode,
                            mapper |-> mapper,
                            prg_rom_pages |-> prg_rom_pages,
                            chr_rom_pages |-> chr_rom_pages]]

(***************************************************************************)
(* ppu.rs, apu.rs                                                          *)
(***************************************************************************)
CLOCKS_PER_FRAME == 341 * 262
CLOCKS_PER_FRAME_BEFORE_VBLANK == 341 * 242

PPU_new == [clock |-> 0, in_vblank |-> FALSE]

\* Mutant of PPU_tick: vblank begins at the boundary, not after it.
PPU_tick_AtBoundary(ppu, cycles) ==
    LET clock == ppu.clock + cycles
        clock_in_current_frame == clock % CLOCKS_PER_FRAME
    IN  [clock |-> clock,
         in_vblank |->
            IF ~ppu.in_vblank /\ clock_in_current_frame >= CLOCKS_PER_FRAME_BEFORE_VBLANK
                THEN TRUE
            ELSE IF ppu.in_vblank /\ clock_in_current_frame < CLOCKS_PER_FRAME_BEFORE_VBLANK
                THEN FALSE
            ELSE ppu.in_vblank]

\* PPU::tick; the u64 clock does not overflow within the model's bounds
PPU_tick(ppu, cycles) ==
    LET clock == ppu.clock + cycles
        clock_in_current_frame == clock % CLOCKS_PER_FRAME
    IN  [clock |-> clock,
         in_vblank |->
            IF ~ppu.in_vblank /\ clock_in_current_frame > CLOCKS_PER_FRAME_BEFORE_VBLANK
                THEN TRUE
            ELSE IF ppu.in_vblank /\ clock_in_current_frame <= CLOCKS_PER_FRAME_BEFORE_VBLANK
                THEN FALSE
            ELSE ppu.in_vblank]

\* Mutant of PPU_read_address: the read leaves the vblank flag as it is.
PPU_read_address_KeepsFlag(ppu, address) ==
    [ppu |-> ppu,
     v   |-> IF ppu.in_vblank THEN \H80 ELSE 0]

\* PPU::read_address: the status byte, and the PPU with the vblank flag cleared
PPU_read_address(ppu, address) ==
    [ppu |-> [ppu EXCEPT !.in_vblank = FALSE],
     v   |-> IF ppu.in_vblank THEN \H80 ELSE 0]

PPU_write_address(ppu, address, value) == ppu

APU_read_address(address) == 0

(***************************************************************************)
(* system.rs.  scratch_ram is the 0x800-byte array, kept as the function   *)
(* from its nonzero cells to their values (it starts all zero).            *)
(* A bus operation yields the system after it, the value read (v) and      *)
(* whether it panicked (fault).                                            *)
(***************************************************************************)
\* `let name = e; ...`: the value of e under the name of F's parameter
Let(e, F(_)) == F(e)

RamSize == \H800

EmptyRam == [i \in {} |-> 0]

RamGet(ram, i) == IF i \in DOMAIN ram THEN ram[i] ELSE 0

RamSet(ram, i, value) ==
    IF value = 0 THEN [j \in DOMAIN ram \ {i} |-> ram[j]]
    ELSE [j \in DOMAIN ram \cup {i} |-> IF j = i THEN value ELSE ram[j]]

System_new(f) ==
    LET l == load_to_cart(f)
    IN  [tag |-> l.tag,
         system |-> [scratch_ram |-> EmptyRam, ppu |-> PPU_new, cart |-> l.cart]]

Bus(sys, v, fault) == [sys |-> sys, v |-> v, fault |-> fault]

\* cart.prg_rom_pages[index][offset], index 0-based; either index out of range panics
PrgPageRead(sys, index, offset) ==
    IF index < 0 \/ index >= Len(sys.cart.prg_rom_pages) THEN Bus(sys, 0, TRUE)
    ELSE IF offset >= sys.cart.prg_rom_pages[index + 1].len THEN Bus(sys, 0, TRUE)
    ELSE Bus(sys, PageByte(file, sys.cart.prg_rom_pages[index + 1], offset), FALSE)

\* Mutant of read_mapper_byte: the upper bank reads the first page, not the last.
read_mapper_byte_FirstPage(sys, address) ==
    IF address >= \H8000 /\ address <= \Hbfff
        THEN PrgPageRead(sys, 0, address - \H8000)
    ELSE IF address >= \Hc000
        THEN PrgPageRead(sys, 0, address - \Hc000)
    ELSE Bus(sys, 0, TRUE)

\* With no program page, `len() - 1` overflows (panic) or wraps to usize::MAX,
\* which is out of range (panic): PrgPageRead panics on -1 in both builds.
read_mapper_byte(sys, address) ==
    IF address >= \H8000 /\ address <= \Hbfff
        THEN PrgPageRead(sys, 0, address - \H8000)
    ELSE IF address >= \Hc000
        THEN PrgPageRead(sys, Len(sys.cart.prg_rom_pages) - 1, address - \Hc000)
    ELSE Bus(sys, 0, TRUE)

\* Mutant of write_mapper_byte: the byte written lands in the mapper number.
write_mapper_byte_SetsMapper(sys, address, value) ==
    [sys EXCEPT !.cart.mapper = value]

write_mapper_byte(sys, address, value) == sys

\* scratch_ram[index]
RamRead(sys, index) ==
    IF index >= RamSize THEN Bus(sys, 0, TRUE)
    ELSE Bus(sys, RamGet(sys.scratch_ram, index), FALSE)

\* scratch_ram[index] = value
RamWrite(sys, index, value) ==
    IF index >= RamSize THEN Bus(sys, 0, TRUE)
    ELSE Bus([sys EXCEPT !.scratch_ram = RamSet(@, index, value)], 0, FALSE)

read_byte(sys, address) ==
    IF address < \H2000 THEN RamRead(sys, BitAnd(address, \H7ff))
    ELSE IF address < \H4000
        THEN LET r == PPU_read_address(sys.ppu, address)
             IN  Bus([sys EXCEPT !.ppu = r.ppu], r.v, FALSE)
    ELSE IF address < \H4020 THEN Bus(sys, APU_read_address(address), FALSE)
    ELSE read_mapper_byte(sys, address)

\* Mutant of write_byte: the RAM mirror mask is 0x3ff.
write_byte_Mask3ff(sys, address, value) ==
    IF address < \H2000 THEN RamWrite(sys, BitAnd(address, \H3ff), value)
    ELSE IF address < \H4000
        THEN Bus([sys EXCEPT !.ppu = PPU_write_address(@, address, value)], 0, FALSE)
    ELSE IF address < \H4020 THEN Bus(sys, 0, FALSE)
    ELSE Bus(write_mapper_byte(sys, address, value), 0, FALSE)

\* Mutant of write_byte: the RAM range reaches to 0x4000.
write_byte_RamTo4000(sys, address, value) ==
    IF address < \H4000 THEN RamWrite(sys, BitAnd(address, \H7ff), value)
    ELSE IF address < \H4020 THEN Bus(sys, 0, FALSE)
    ELSE Bus(write_mapper_byte(sys, address, value), 0, FALSE)

write_byte(sys, address, value) ==
    IF address < \H2000 THEN RamWrite(sys, BitAnd(address, \H7ff), value)
    ELSE IF address < \H4000
        THEN Bus([sys EXCEPT !.ppu = PPU_write_address(@, address, value)], 0, FALSE)
    ELSE IF address < \H4020 THEN Bus(sys, 0, FALSE)
    ELSE Bus(write_mapper_byte(sys, address, value), 0, FALSE)

\* `address + 1` is u16 arithmetic: it panics at 0xffff when overflow is
\* checked and wraps to 0 otherwise.  The high byte is read first.
read_word(sys, address) ==
    IF address + 1 > \Hffff /\ overflow_checks THEN Bus(sys, 0, TRUE)
    ELSE
        Let(read_byte(sys, (address + 1) % 65536), LAMBDA hi :
            IF hi.fault THEN Bus(hi.sys, 0, TRUE)
            ELSE Let(read_byte(hi.sys, address), LAMBDA lo :
                     IF lo.fault THEN Bus(lo.sys, 0, TRUE)
                     ELSE Bus(lo.sys, hi.v * 256 + lo.v, FALSE)))

(***************************************************************************)
(* Values the three specifications start from when a variable is not yet   *)
(* (or never) set.                                                         *)
(***************************************************************************)
NoSystem == [scratch_ram |-> EmptyRam, ppu |-> PPU_new, cart |-> NoCart]

\* the empty string debug_state starts as
NoDebugState == <<>>

NoCPU ==
    [a |-> 0, x |-> 0, y |-> 0, pc |-> 0, s |-> 0,
     carry |-> FALSE, zero |-> FALSE, interrupt_disable |-> FALSE,
     decimal |-> FALSE, break_flag |-> FALSE, overflow |-> FALSE,
     negative |-> FALSE, clock |-> 0,
     debug_state |-> NoDebugState, debug_enabled |-> FALSE]

NoRet == [op |-> "none", address |-> 0, value |-> 0, v |-> 0, fault |-> FALSE]

NotLoaded == [tag |-> "none", cart |-> NoCart]

(***************************************************************************)
(* ROM files the specifications draw from.                                 *)
(***************************************************************************)
MissingFile ==
    [kind |-> "missing", len |-> 0, magic |-> NesMagic, prg |-> 0, chr |-> 0,
     flags6 |-> 0, flags7 |-> 0, ramp |-> TRUE, fill |-> 0, patch |-> EmptyRam]

UnreadableFile == [MissingFile EXCEPT !.kind = "unreadable"]

RomFile(magic, prg, chr, flags6, flags7, len) ==
    [kind |-> "rom", len |-> len, magic |-> magic, prg |-> prg, chr |-> chr,
     flags6 |-> flags6, flags7 |-> flags7, ramp |-> TRUE, fill |-> 0,
     patch |-> EmptyRam]

\* the length the header declares
FullLen(prg, chr) == 16 + prg * prg_rom_page_size + chr * chr_rom_page_size

Magics ==
    {NesMagic, <<\H4e, \H45, \H53, \H00>>, <<\H4e, \H45, \H00, \H1a>>,
     <<\H00, \H45, \H53, \H1a>>}

Flags6 == {\H00, \H01, \Hf6}
Flags7 == {\H00, \Hf0}

FileLens(prg, chr) ==
    {0, 1, 2, 3, 4, 5, 7, 8, 15, 16,
     16 + prg * prg_rom_page_size,
     FullLen(prg, chr) - 1, FullLen(prg, chr), FullLen(prg, chr) + 1}

CartFiles ==
    {MissingFile, UnreadableFile} \cup
    UNION {UNION {{RomFile(magic, prg, chr, f6, f7, len) :
                      magic \in Magics, f6 \in Flags6, f7 \in Flags7,
                      len \in FileLens(prg, chr)} :
                  prg \in 0 .. MaxPrg} : chr \in 0 .. MaxChr}

(***************************************************************************)
(* SpecCart: load_to_cart applied once to a file.                          *)
(***************************************************************************)
InitCart ==
    /\ overflow_checks \in BOOLEAN
    /\ file \in CartFiles
    /\ loaded = NotLoaded
    /\ system = NoSystem
    /\ cpu = NoCPU
    /\ status = "start"
    /\ ret = NoRet
    /\ stdout = <<>>
    /\ steps = 0

LoadToCart ==
    /\ status = "start"
    /\ loaded' = load_to_cart(file)
    /\ status' = IF loaded'.tag = "panic" THEN "panicked" ELSE "returned"
    /\ UNCHANGED <<overflow_checks, file, system, cpu, ret, stdout, steps>>

NextCart == LoadToCart

SpecCart == InitCart /\ [][NextCart]_vars

\* the first four bytes of the file are the magic sequence
HasMagic(f) ==
    /\ f.kind = "rom"
    /\ f.len >= 4
    /\ <<contents(f, 0), contents(f, 1), contents(f, 2), contents(f, 3)>> = NesMagic

\* C5: a readable file is rejected with FileNotARom exactly when its first
\* four bytes are not "NES" 0x1a (files shorter than four bytes included).
C5_FileNotARomIffBadMagic ==
    (status # "start" /\ file.kind = "rom")
        => ((loaded.tag = "FileNotARom") <=> ~HasMagic(file))

\* C6: a cartridge loaded from a file with header bytes p and c has p
\* program pages of 16384 bytes and c graphics pages of 8192 bytes, its
\* stored counts are the lengths of the page sequences, and every page byte
\* is the file byte at 16 + i*16384 + j (program) or
\* 16 + p*16384 + i*8192 + j (graphics).
C6_PagesSlicedFromOffset16 ==
    loaded.tag = "Ok" =>
        LET p == contents(file, 4)
            c == contents(file, 5)
            cart == loaded.cart
        IN  /\ Len(cart.prg_rom_pages) = p
            /\ Len(cart.chr_rom_pages) = c
            /\ cart.prg_rom = Len(cart.prg_rom_pages)
            /\ cart.chr_rom = Len(cart.chr_rom_pages)
            /\ \A i \in 0 .. p - 1 :
                /\ cart.prg_rom_pages[i + 1].len = 16384
                /\ \A j \in 0 .. 16383 :
                    PageByte(file, cart.prg_rom_pages[i + 1], j)
                        = contents(file, 16 + i * 16384 + j)
            /\ \A i \in 0 .. c - 1 :
                /\ cart.chr_rom_pages[i + 1].len = 8192
                /\ \A j \in 0 .. 8191 :
                    PageByte(file, cart.chr_rom_pages[i + 1], j)
                        = contents(file, 16 + p * 16384 + i * 8192 + j)

C6_Witness ==
    /\ loaded.tag = "Ok"
    /\ loaded.cart.prg_rom = 2
    /\ loaded.cart.chr_rom = 1
    /\ PageByte(file, loaded.cart.prg_rom_pages[2], 16383) = contents(file, 16 + 32767)
    /\ PageByte(file, loaded.cart.chr_rom_pages[1], 0) = contents(file, 16 + 32768)

\* C7: load_to_cart returns a cartridge or one of the three typed errors for
\* every file; it never panics.
C7_LoadIsTotal ==
    status # "start" => loaded.tag \in {"Ok", "FileNotFound", "FileNotARom", "IoError"}

(***************************************************************************)
(* SpecBus: a System built from a well-formed file, then any sequence of   *)
(* read_byte, write_byte and read_word calls.  A call that panics ends the *)
(* run.                                                                    *)
(***************************************************************************)
BusFiles == {RomFile(NesMagic, prg, 0, 0, 0, FullLen(prg, 0)) : prg \in 0 .. MaxPrg}

BusAddrs ==
    {\H0000, \H0001, \H07ff, \H0800, \H0fff, \H1000, \H17ff, \H1800, \H1fff,
     \H2000, \H2002, \H3fff, \H4000, \H401f, \H4020, \H6000, \H7fff,
     \H8000, \H8001, \Hbfff, \Hc000, \Hc001, \Hfffc, \Hfffe, \Hffff}

WriteAddrs ==
    {\H0000, \H0800, \H1000, \H1800, \H07ff, \H0fff, \H17ff, \H1fff,
     \H2000, \H3fff, \H4000, \H4020, \H6000, \H7fff, \H8000, \Hffff}

ByteVals == {\H00, \H01, \Hff}

InitBus ==
    /\ overflow_checks \in BOOLEAN
    /\ file \in BusFiles
    /\ loaded = NotLoaded
    /\ system = System_new(file).system
    /\ cpu = NoCPU
    /\ status = "running"
    /\ ret = NoRet
    /\ stdout = <<>>
    /\ steps = 0

BusCall(op, address, value, r) ==
    /\ status = "running"
    /\ system' = r.sys
    /\ ret' = [op |-> op, address |-> address, value |-> value,
               v |-> r.v, fault |-> r.fault]
    /\ status' = IF r.fault THEN "panicked" ELSE "running"
    /\ UNCHANGED <<overflow_checks, file, loaded, cpu, stdout, steps>>

SysReadByte ==
    \E address \in BusAddrs :
        BusCall("read_byte", address, 0, read_byte(system, address))

SysWriteByte ==
    \E address \in WriteAddrs, value \in ByteVals :
        BusCall("write_byte", address, value, write_byte(system, address, value))

SysReadWord ==
    \E address \in BusAddrs :
        BusCall("read_word", address, 0, read_word(system, address))

NextBus == SysReadByte \/ SysWriteByte \/ SysReadWord

SpecBus == InitBus /\ [][NextBus]_vars

\* C1: after write_byte(a, v) at any alias a < 0x2000 of a scratch-RAM cell,
\* read_byte returns v at the cell's address and at its three aliases
\* +0x0800, +0x1000, +0x1800.
C1_RamRoundTripMirrored ==
    (ret.op = "write_byte" /\ ret.address < \H2000) =>
        /\ ~ret.fault
        /\ \A k \in 0 .. 3 :
            LET r == read_byte(system, (ret.address % \H800) + k * \H800)
            IN  ~r.fault /\ r.v = ret.value

C1_Witness ==
    /\ ret.op = "write_byte"
    /\ ret.address = \H17ff
    /\ ret.value = \Hff
    /\ read_byte(system, \H07ff).v = \Hff
    /\ read_byte(system, \H0000).v = \H01

\* C2: read_word(a) returns a value for every address a, and the value is
\* read_byte(a) | (read_byte(a+1) << 8).
C2_ReadWordIsLittleEndianEverywhere ==
    [][(status = "running" /\ ret'.op = "read_word") =>
        /\ ~ret'.fault
        /\ ret'.v = BitOr(read_byte(system, ret'.address).v,
                          read_byte(system, (ret'.address + 1) % 65536).v * 256)]_vars

\* The cells on which two scratch RAMs can differ: a cell that is in neither
\* domain is zero in both.  The first and last cell are compared as well.
CellsToCompare(before, after) ==
    DOMAIN before \cup DOMAIN after \cup {0, RamSize - 1}

\* C3: write_byte(a, v) sets the scratch-RAM cell a & 0x7ff to v and leaves
\* every other cell as it was when a < 0x2000, and leaves every cell as it
\* was when a >= 0x2000.
C3_WriteTouchesOneCell ==
    [][(status = "running" /\ ret'.op = "write_byte") =>
        /\ ~ret'.fault
        /\ \A i \in CellsToCompare(system.scratch_ram, system'.scratch_ram)
                        \cup {ret'.address % \H800} :
            RamGet(system'.scratch_ram, i) =
                IF ret'.address < \H2000 /\ i = ret'.address % \H800
                    THEN ret'.value
                ELSE RamGet(system.scratch_ram, i)]_vars

C3_Witness ==
    /\ ret.op = "write_byte"
    /\ ret.address = \H0800
    /\ ret.value = \H01
    /\ RamGet(system.scratch_ram, 0) = \H01
    /\ RamGet(system.scratch_ram, \H7ff) = \Hff

\* C4: on a cartridge with n >= 1 program pages, read_byte(0x8000 + k) is
\* byte k of program page 0 and read_byte(0xc000 + k) is byte k of program
\* page n-1; with one page the two reads agree.
C4_MapperRead ==
    (ret.op = "read_byte" /\ ret.address >= \H8000
        /\ Len(system.cart.prg_rom_pages) >= 1) =>
        LET n == Len(system.cart.prg_rom_pages)
            a == ret.address
        IN  /\ ~ret.fault
            /\ a < \Hc000 =>
                ret.v = PageByte(file, system.cart.prg_rom_pages[1], a - \H8000)
            /\ a >= \Hc000 =>
                ret.v = PageByte(file, system.cart.prg_rom_pages[n], a - \Hc000)
            /\ n = 1 =>
                ret.v = read_byte(system, IF a < \Hc000 THEN a + \H4000 ELSE a - \H4000).v

C4_Witness ==
    /\ ret.op = "read_byte"
    /\ ret.address = \Hfffc
    /\ Len(system.cart.prg_rom_pages) = 2
    /\ ~ret.fault
    /\ ret.v = contents(file, 16 + 16384 + \H3ffc)
    /\ ret.v # contents(file, 16 + \H3ffc)

(***************************************************************************)
(* cpu.rs.  A handler is an operator on the machine                        *)
(*     m = [cpu, sys, fault, out]                                          *)
(* (the CPU's fields, its System, whether the step has panicked, and the   *)
(* lines printed).  Statements are applied in source order; once fault is  *)
(* set nothing further changes, so m is the state at the panic.            *)
(* An operator that yields a value returns [m |-> machine, v |-> value].   *)
(***************************************************************************)
Panic(m) == [m EXCEPT !.fault = TRUE]

Val(m, v) == [m |-> m, v |-> v]

\* self.<field> = value
SetReg(m, field, value) ==
    IF m.fault THEN m ELSE [m EXCEPT !.cpu[field] = value]

\* an integer operation whose exact result `exact` must lie in lo..hi:
\* it panics when the build checks overflow, and wraps otherwise
Checked(m, exact, lo, hi) ==
    IF m.fault THEN m
    ELSE IF overflow_checks /\ (exact < lo \/ exact > hi) THEN Panic(m)
    ELSE m

\* two's-complement truncation to 8 and 16 bits
U8(n) == ((n % 256) + 256) % 256
U16(n) == ((n % 65536) + 65536) % 65536
\* u8 as i8, u16 as i16
I8(n) == IF n >= 128 THEN n - 256 ELSE n
I16(n) == IF n >= 32768 THEN n - 65536 ELSE n

\* self.system.read_byte(address)
Rd(m, address) ==
    IF m.fault THEN Val(m, 0)
    ELSE Let(read_byte(m.sys, address), LAMBDA r :
             Val([m EXCEPT !.sys = r.sys, !.fault = r.fault], r.v))

\* self.system.read_word(address)
RdWord(m, address) ==
    IF m.fault THEN Val(m, 0)
    ELSE Let(read_word(m.sys, address), LAMBDA r :
             Val([m EXCEPT !.sys = r.sys, !.fault = r.fault], r.v))

\* self.system.write_byte(address, value)
Wr(m, address, value) ==
    IF m.fault THEN m
    ELSE Let(write_byte(m.sys, address, value), LAMBDA r :
             [m EXCEPT !.sys = r.sys, !.fault = r.fault])

\* self.clock += n (u64: no overflow within the model's bounds)
AddClock(m, n) == SetReg(m, "clock", m.cpu.clock + n)

\* self.pc += n (u16)
AddPc(m, n) ==
    SetReg(Checked(m, m.cpu.pc + n, 0, \Hffff), "pc", U16(m.cpu.pc + n))

\* self.s += 1, self.s -= 1 (u8)
IncS(m) == SetReg(Checked(m, m.cpu.s + 1, 0, 255), "s", U8(m.cpu.s + 1))
DecS(m) == SetReg(Checked(m, m.cpu.s - 1, 0, 255), "s", U8(m.cpu.s - 1))

\* ---- tracing ----
\* the string save_debug_state formats: pc, a, x, y, s and the flags N V D I Z C
FormatState(c) ==
    <<c.pc, c.a, c.x, c.y, c.s,
      c.negative, c.overflow, c.decimal, c.interrupt_disable, c.zero, c.carry>>

\* Mutant of save_debug_state: taking the snapshot costs a clock cycle.
save_debug_state_AdvancesClock(m) ==
    IF ~m.cpu.debug_enabled THEN m
    ELSE AddClock(SetReg(m, "debug_state", FormatState(m.cpu)), 1)

save_debug_state(m) ==
    IF ~m.cpu.debug_enabled THEN m
    ELSE SetReg(m, "debug_state", FormatState(m.cpu))

\* println!("{}    {}", self.debug_state, opcode_info)
debug_opcode(m, opcode_info) ==
    IF m.fault \/ ~m.cpu.debug_enabled THEN m
    ELSE [m EXCEPT !.out = Append(@, <<m.cpu.debug_state, opcode_info>>)]

debug_opcode_with_address(m, opcode_name, address) ==
    debug_opcode(m, <<opcode_name, address>>)

\* ---- addressing modes ----
immediate(m) == Val(Checked(m, m.cpu.pc + 1, 0, \Hffff), U16(m.cpu.pc + 1))

\* (read_byte(next_address) + to_add) as u16: the sum is u8 arithmetic
general_zero_page(m, to_add) ==
    Let(immediate(m), LAMBDA next_address :
    Let(Rd(next_address.m, next_address.v), LAMBDA b :
        Val(Checked(b.m, b.v + to_add, 0, 255), U8(b.v + to_add))))

zero_page(m) == general_zero_page(m, 0)

zero_page_x(m) == general_zero_page(m, m.cpu.x)

zero_page_y(m) == general_zero_page(m, m.cpu.y)

indirect_zero_page_x(m) ==
    Let(zero_page_x(m), LAMBDA z : RdWord(z.m, z.v))

\* base + index with the page-fault clock: shared by the three indexed modes
Indexed(base, index, extra_clock_for_page_fault) ==
    Let(Shr(base.v, 8), LAMBDA page1 :
    Let(Checked(base.m, base.v + index, 0, \Hffff), LAMBDA m1 :
    Let(U16(base.v + index), LAMBDA address :
    Let(Shr(address, 8), LAMBDA page2 :
        Val(IF extra_clock_for_page_fault /\ page1 # page2 THEN AddClock(m1, 1) ELSE m1,
            address)))))

indirect_zero_page_y(m, extra_clock_for_page_fault) ==
    Let(zero_page(m), LAMBDA address :
    Let(RdWord(address.m, address.v), LAMBDA pre_index :
        Indexed(pre_index, m.cpu.y, extra_clock_for_page_fault)))

absolute(m) ==
    Let(immediate(m), LAMBDA next_address : RdWord(next_address.m, next_address.v))

absolute_x(m, extra_clock_for_page_fault) ==
    Indexed(absolute(m), m.cpu.x, extra_clock_for_page_fault)

absolute_y(m, extra_clock_for_page_fault) ==
    Indexed(absolute(m), m.cpu.y, extra_clock_for_page_fault)

\* ---- flags ----
test_negative(m, value) == SetReg(m, "negative", BitAnd(value, \H80) = \H80)

test_zero(m, value) == SetReg(m, "zero", value = 0)

\* ---- the head of a handler with operands ----
\* one arm of `match opcode`: (address, clock_increment, pc_increment)
Mode(mode, clock_increment, pc_increment) ==
    [m |-> mode.m, address |-> mode.v,
     clock_increment |-> clock_increment, pc_increment |-> pc_increment]

\* the arm `_ => panic!("Unknown opcode ...")`
UnknownOpcode(m) ==
    [m |-> Panic(m), address |-> 0, clock_increment |-> 0, pc_increment |-> 0]

\* self.clock += clock_increment; self.pc += pc_increment;
Charge(md) == AddPc(AddClock(md.m, md.clock_increment), md.pc_increment)

\* ---- logical and arithmetic commands ----
\* the arms shared by ora, and, eor, adc, sbc and cmp, given the eight opcodes
AccumulatorMode(m, opcode, imm, zp, zpx, izx, izy, abs, abx, aby) ==
    CASE opcode = imm -> Mode(immediate(m), 2, 2)
      [] opcode = zp  -> Mode(zero_page(m), 3, 2)
      [] opcode = zpx -> Mode(zero_page_x(m), 4, 2)
      [] opcode = izx -> Mode(indirect_zero_page_x(m), 6, 2)
      [] opcode = izy -> Mode(indirect_zero_page_y(m, TRUE), 5, 2)
      [] opcode = abs -> Mode(absolute(m), 4, 3)
      [] opcode = abx -> Mode(absolute_x(m, TRUE), 4, 3)
      [] opcode = aby -> Mode(absolute_y(m, TRUE), 4, 3)
      [] OTHER -> UnknownOpcode(m)

\* self.test_negative(self.a); self.test_zero(self.a);
TestA(m) == test_zero(test_negative(m, m.cpu.a), m.cpu.a)

ora(m, opcode) ==
    Let(AccumulatorMode(m, opcode, \H09, \H05, \H15, \H01, \H11, \H0d, \H1d, \H19), LAMBDA md :
    Let(debug_opcode_with_address(Charge(md), "ora", md.address), LAMBDA m1 :
    Let(Rd(m1, md.address), LAMBDA r :
        TestA(SetReg(r.m, "a", BitOr(m1.cpu.a, r.v))))))

and(m, opcode) ==
    Let(AccumulatorMode(m, opcode, \H29, \H25, \H35, \H21, \H31, \H2d, \H3d, \H39), LAMBDA md :
    Let(debug_opcode(Charge(md), <<"and", md.address>>), LAMBDA m1 :
    Let(Rd(m1, md.address), LAMBDA r :
        TestA(SetReg(r.m, "a", BitAnd(m1.cpu.a, r.v))))))

eor(m, opcode) ==
    Let(AccumulatorMode(m, opcode, \H49, \H45, \H55, \H41, \H51, \H4d, \H5d, \H59), LAMBDA md :
    Let(debug_opcode_with_address(Charge(md), "eor", md.address), LAMBDA m1 :
    Let(Rd(m1, md.address), LAMBDA r :
        TestA(SetReg(r.m, "a", BitXor(m1.cpu.a, r.v))))))

\* `!self.carry as i16` is (!self.carry) as i16
NotCarry(m) == IF m.cpu.carry THEN 0 ELSE 1

\* the tail of adc and sbc, from the i16 intermediate
SetFromIntermediate(m, intermediate) ==
    Let(SetReg(m, "overflow", ~(intermediate \in -128 .. 127)), LAMBDA m1 :
    Let(SetReg(m1, "carry", BitAnd(U16(intermediate), \Hff00) # 0), LAMBDA m2 :
    Let(SetReg(m2, "a", U8(intermediate)), LAMBDA m3 :
        TestA(m3))))

adc(m, opcode) ==
    Let(AccumulatorMode(m, opcode, \H69, \H65, \H75, \H61, \H71, \H6d, \H7d, \H79), LAMBDA md :
    Let(debug_opcode_with_address(Charge(md), "adc", md.address), LAMBDA m1 :
    Let(Rd(m1, md.address), LAMBDA r :
        SetFromIntermediate(r.m, m1.cpu.a + r.v + NotCarry(m1)))))

\* sbc without the borrow: A - M, whatever the carry
sbc_IgnoresCarry(m, opcode) ==
    Let(AccumulatorMode(m, opcode, \He9, \He5, \Hf5, \He1, \Hf1, \Hed, \Hfd, \Hf9), LAMBDA md :
    Let(debug_opcode_with_address(Charge(md), "sbc", md.address), LAMBDA m1 :
    Let(Rd(m1, md.address), LAMBDA r :
        SetFromIntermediate(r.m, m1.cpu.a - r.v))))

sbc(m, opcode) ==
    Let(AccumulatorMode(m, opcode, \He9, \He5, \Hf5, \He1, \Hf1, \Hed, \Hfd, \Hf9), LAMBDA md :
    Let(debug_opcode_with_address(Charge(md), "sbc", md.address), LAMBDA m1 :
    Let(Rd(m1, md.address), LAMBDA r :
        SetFromIntermediate(r.m, m1.cpu.a - r.v - NotCarry(m1)))))

\* the tail of cmp, cpx and cpy, from the i16 intermediate
SetFromCompare(m, intermediate) ==
    Let(SetReg(m, "negative", BitAnd(U16(intermediate), \H80) = \H80), LAMBDA m1 :
    Let(SetReg(m1, "zero", intermediate = 0), LAMBDA m2 :
        SetReg(m2, "carry", intermediate >= 0)))

cmp(m, opcode) ==
    Let(AccumulatorMode(m, opcode, \Hc9, \Hc5, \Hd5, \Hc1, \Hd1, \Hcd, \Hdd, \Hd9), LAMBDA md :
    Let(debug_opcode_with_address(Charge(md), "cmp", md.address), LAMBDA m1 :
    Let(Rd(m1, md.address), LAMBDA r :
        SetFromCompare(r.m, m1.cpu.a - r.v))))

\* cpx matches the opcodes 0xc0, 0xc4, 0xcc and compares self.y
cpx(m, opcode) ==
    Let((CASE opcode = \Hc0 -> Mode(immediate(m), 2, 2)
           [] opcode = \Hc4 -> Mode(zero_page(m), 3, 2)
           [] opcode = \Hcc -> Mode(absolute(m), 4, 3)
           [] OTHER -> UnknownOpcode(m)), LAMBDA md :
    Let(debug_opcode_with_address(Charge(md), "cpx", md.address), LAMBDA m1 :
    Let(Rd(m1, md.address), LAMBDA r :
        SetFromCompare(r.m, m1.cpu.y - r.v))))

\* cpy matches the opcodes 0xe0, 0xe4, 0xec and compares self.x
cpy(m, opcode) ==
    Let((CASE opcode = \He0 -> Mode(immediate(m), 2, 2)
           [] opcode = \He4 -> Mode(zero_page(m), 3, 2)
           [] opcode = \Hec -> Mode(absolute(m), 4, 3)
           [] OTHER -> UnknownOpcode(m)), LAMBDA md :
    Let(debug_opcode_with_address(Charge(md), "cpy", md.address), LAMBDA m1 :
    Let(Rd(m1, md.address), LAMBDA r :
        SetFromCompare(r.m, m1.cpu.x - r.v))))

\* the arms shared by dec, inc, asl, rol, lsr and ror on memory
ReadModifyWriteMode(m, opcode, zp, zpx, abs, abx) ==
    CASE opcode = zp  -> Mode(zero_page(m), 5, 2)
      [] opcode = zpx -> Mode(zero_page_x(m), 6, 2)
      [] opcode = abs -> Mode(absolute(m), 6, 3)
      [] opcode = abx -> Mode(absolute_x(m, FALSE), 7, 3)
      [] OTHER -> UnknownOpcode(m)

\* test_negative, test_zero, then write_byte(address, intermediate)
TestAndStore(m, address, intermediate) ==
    Wr(test_zero(test_negative(m, intermediate), intermediate), address, intermediate)

dec(m, opcode) ==
    Let(ReadModifyWriteMode(m, opcode, \Hc6, \Hd6, \Hce, \Hde), LAMBDA md :
    Let(debug_opcode_with_address(Charge(md), "dec", md.address), LAMBDA m1 :
    Let(Rd(m1, md.address), LAMBDA r :
        TestAndStore(Checked(r.m, r.v - 1, 0, 255), md.address, U8(r.v - 1)))))

\* self.<reg> -= 1 / += 1 with the flags from the new value
StepReg(m, reg, delta) ==
    Let(m.cpu[reg] + delta, LAMBDA value :
    Let(SetReg(Checked(m, value, 0, 255), reg, U8(value)), LAMBDA m1 :
        test_zero(test_negative(m1, U8(value)), U8(value))))

\* self.clock += 2; self.pc += 1;
Implied(m) == AddPc(AddClock(m, 2), 1)

dex(m) == StepReg(Implied(debug_opcode(m, <<"dex">>)), "x", -1)

dey(m) == StepReg(Implied(debug_opcode(m, <<"dey">>)), "y", -1)

inc(m, opcode) ==
    Let(ReadModifyWriteMode(m, opcode, \He6, \Hf6, \Hee, \Hfe), LAMBDA md :
    Let(debug_opcode_with_address(Charge(md), "inc", md.address), LAMBDA m1 :
    Let(Rd(m1, md.address), LAMBDA r :
        TestAndStore(Checked(r.m, r.v + 1, 0, 255), md.address, U8(r.v + 1)))))

\* inx traces itself as "inc"
inx(m) == StepReg(Implied(debug_opcode(m, <<"inc">>)), "x", 1)

iny(m) == StepReg(Implied(debug_opcode(m, <<"iny">>)), "y", 1)

\* ---- shifts and rotates ----
\* value << k and value >> k on a u8 with k < 8
Shl8(value, k) == (value * (2 ^ k)) % 256

\* the accumulator form: carry, the shifted accumulator, its flags, then
\* self.clock += 2; self.pc += 1;
ShiftA(m, name, carry, value) ==
    Let(debug_opcode(m, <<name>>), LAMBDA m1 :
    Let(SetReg(m1, "carry", carry), LAMBDA m2 :
    Let(TestA(SetReg(m2, "a", value)), LAMBDA m3 :
        AddPc(AddClock(m3, 2), 1))))

\* the memory form: carry, then the flags and the store of the shifted byte
ShiftMem(m, address, carry, value) ==
    TestAndStore(SetReg(m, "carry", carry), address, value)

asl(m, opcode) ==
    IF opcode = \H0a
        THEN ShiftA(m, "asl A", BitAnd(m.cpu.a, \H80) = \H80, Shl8(m.cpu.a, 1))
    ELSE
        Let(ReadModifyWriteMode(m, opcode, \H06, \H16, \H0e, \H1e), LAMBDA md :
        Let(debug_opcode_with_address(Charge(md), "asl {}", md.address), LAMBDA m1 :
        Let(Rd(m1, md.address), LAMBDA r :
            ShiftMem(r.m, md.address, BitAnd(r.v, \H80) = \H80, Shl8(r.v, 1)))))

\* `<<= 1 + carry_value` shifts by 1 + carry_value
rol(m, opcode) ==
    LET carry_value == IF m.cpu.carry THEN 1 ELSE 0
    IN  IF opcode = \H2a
            THEN ShiftA(m, "rol A", BitAnd(m.cpu.a, \H80) = \H80,
                        Shl8(m.cpu.a, 1 + carry_value))
        ELSE
            Let(ReadModifyWriteMode(m, opcode, \H26, \H36, \H2e, \H3e), LAMBDA md :
            Let(debug_opcode_with_address(Charge(md), "rol {}", md.address), LAMBDA m1 :
            Let(Rd(m1, md.address), LAMBDA r :
                ShiftMem(r.m, md.address, BitAnd(r.v, \H80) = \H80,
                         Shl8(r.v, 1 + carry_value)))))

lsr(m, opcode) ==
    IF opcode = \H4a
        THEN ShiftA(m, "lsr A", BitAnd(m.cpu.a, \H01) = \H01, Shr(m.cpu.a, 1))
    ELSE
        Let(ReadModifyWriteMode(m, opcode, \H46, \H56, \H4e, \H5e), LAMBDA md :
        Let(debug_opcode_with_address(Charge(md), "lsr {}", md.address), LAMBDA m1 :
        Let(Rd(m1, md.address), LAMBDA r :
            ShiftMem(r.m, md.address, BitAnd(r.v, \H01) = \H01, Shr(r.v, 1)))))

\* The memory form shifts by 1 + carry_value with carry_value 0x80 or 0: a
\* shift of a u8 by 129 panics when overflow is checked and is a shift by
\* 129 & 7 = 1 otherwise.  The accumulator form shifts by 1.
ror(m, opcode) ==
    LET carry_value == IF m.cpu.carry THEN \H80 ELSE 0
    IN  IF opcode = \H6a
            THEN ShiftA(m, "ror A", BitAnd(m.cpu.a, \H01) = \H01, Shr(m.cpu.a, 1))
        ELSE
            Let(ReadModifyWriteMode(m, opcode, \H66, \H76, \H6e, \H7e), LAMBDA md :
            Let(debug_opcode_with_address(Charge(md), "ror", md.address), LAMBDA m1 :
            Let(Rd(m1, md.address), LAMBDA r :
            Let(SetReg(r.m, "carry", BitAnd(r.v, \H01) = \H01), LAMBDA m2 :
            Let(Checked(m2, 1 + carry_value, 0, 7), LAMBDA m3 :
                TestAndStore(m3, md.address, Shr(r.v, (1 + carry_value) % 8)))))))

\* ---- move commands ----
\* the tail of lda, ldx, ldy: the flags from the byte read, then the register
Load(m, address, reg) ==
    Let(Rd(m, address), LAMBDA r :
        SetReg(test_zero(test_negative(r.m, r.v), r.v), reg, r.v))

\* Mutant of lda: the flags are tested on the old accumulator.
lda_FlagsFromOldA(m, opcode) ==
    Let((CASE opcode = \Ha9 -> Mode(immediate(m), 2, 2)
           [] opcode = \Ha5 -> Mode(zero_page(m), 3, 2)
           [] opcode = \Hb5 -> Mode(zero_page_x(m), 4, 2)
           [] opcode = \Had -> Mode(absolute(m), 4, 3)
           [] opcode = \Hbd -> Mode(absolute_x(m, TRUE), 6, 3)
           [] opcode = \Hb9 -> Mode(absolute_y(m, TRUE), 4, 2)
           [] opcode = \Ha1 -> Mode(indirect_zero_page_x(m), 6, 4)
           [] opcode = \Hb1 -> Mode(indirect_zero_page_y(m, TRUE), 6, 2)
           [] OTHER -> UnknownOpcode(m)), LAMBDA md :
    Let(debug_opcode_with_address(Charge(md), "lda", md.address), LAMBDA m1 :
    Let(Rd(m1, md.address), LAMBDA r :
        SetReg(TestA(r.m), "a", r.v))))

lda(m, opcode) ==
    Let((CASE opcode = \Ha9 -> Mode(immediate(m), 2, 2)
           [] opcode = \Ha5 -> Mode(zero_page(m), 3, 2)
           [] opcode = \Hb5 -> Mode(zero_page_x(m), 4, 2)
           [] opcode = \Had -> Mode(absolute(m), 4, 3)
           [] opcode = \Hbd -> Mode(absolute_x(m, TRUE), 6, 3)
           [] opcode = \Hb9 -> Mode(absolute_y(m, TRUE), 4, 2)
           [] opcode = \Ha1 -> Mode(indirect_zero_page_x(m), 6, 4)
           [] opcode = \Hb1 -> Mode(indirect_zero_page_y(m, TRUE), 6, 2)
           [] OTHER -> UnknownOpcode(m)), LAMBDA md :
        Load(debug_opcode_with_address(Charge(md), "lda", md.address), md.address, "a"))

ldx(m, opcode) ==
    Let((CASE opcode = \Ha2 -> Mode(immediate(m), 2, 2)
           [] opcode = \Ha6 -> Mode(zero_page(m), 3, 2)
           [] opcode = \Hb6 -> Mode(zero_page_y(m), 4, 2)
           [] opcode = \Hae -> Mode(absolute(m), 4, 3)
           [] opcode = \Hbe -> Mode(absolute_y(m, TRUE), 4, 2)
           [] OTHER -> UnknownOpcode(m)), LAMBDA md :
        Load(debug_opcode_with_address(Charge(md), "ldx", md.address), md.address, "x"))

ldy(m, opcode) ==
    Let((CASE opcode = \Ha0 -> Mode(immediate(m), 2, 2)
           [] opcode = \Ha4 -> Mode(zero_page(m), 3, 2)
           [] opcode = \Hb4 -> Mode(zero_page_x(m), 4, 2)
           [] opcode = \H8c -> Mode(absolute(m), 4, 3)
           [] opcode = \Hbc -> Mode(absolute_x(m, TRUE), 4, 2)
           [] OTHER -> UnknownOpcode(m)), LAMBDA md :
        Load(debug_opcode_with_address(Charge(md), "ldy", md.address), md.address, "y"))

sta(m, opcode) ==
    Let((CASE opcode = \H85 -> Mode(zero_page(m), 3, 2)
           [] opcode = \H95 -> Mode(zero_page_x(m), 4, 2)
           [] opcode = \H8d -> Mode(absolute(m), 4, 3)
           [] opcode = \H9d -> Mode(absolute_x(m, FALSE), 5, 3)
           [] opcode = \H99 -> Mode(absolute_y(m, FALSE), 5, 3)
           [] opcode = \H81 -> Mode(indirect_zero_page_x(m), 6, 2)
           [] opcode = \H91 -> Mode(indirect_zero_page_y(m, FALSE), 6, 2)
           [] OTHER -> UnknownOpcode(m)), LAMBDA md :
    Let(debug_opcode_with_address(Charge(md), "sta", md.address), LAMBDA m1 :
        Wr(m1, md.address, m1.cpu.a)))

stx(m, opcode) ==
    Let((CASE opcode = \H86 -> Mode(zero_page(m), 3, 2)
           [] opcode = \H96 -> Mode(zero_page_y(m), 4, 2)
           [] opcode = \H8e -> Mode(absolute(m), 4, 3)
           [] OTHER -> UnknownOpcode(m)), LAMBDA md :
    Let(debug_opcode_with_address(Charge(md), "stx", md.address), LAMBDA m1 :
        Wr(m1, md.address, m1.cpu.x)))

sty(m, opcode) ==
    Let((CASE opcode = \H84 -> Mode(zero_page(m), 3, 2)
           [] opcode = \H94 -> Mode(zero_page_y(m), 4, 2)
           [] opcode = \H8c -> Mode(absolute(m), 4, 3)
           [] OTHER -> UnknownOpcode(m)), LAMBDA md :
    Let(debug_opcode_with_address(Charge(md), "sty", md.address), LAMBDA m1 :
        Wr(m1, md.address, m1.cpu.y)))

\* a register transfer: the flags from the source (unless it is txs), then the copy
Transfer(m, name, from, to, flags) ==
    Let(Implied(debug_opcode(m, <<name>>)), LAMBDA m1 :
    Let((IF flags THEN test_zero(test_negative(m1, m1.cpu[from]), m1.cpu[from])
              ELSE m1), LAMBDA m2 :
        SetReg(m2, to, m1.cpu[from])))

tax(m) == Transfer(m, "tax", "a", "x", TRUE)
txa(m) == Transfer(m, "txa", "x", "a", TRUE)
tay(m) == Transfer(m, "tay", "a", "y", TRUE)
tya(m) == Transfer(m, "tya", "y", "a", TRUE)
tsx(m) == Transfer(m, "tsx", "s", "x", TRUE)
txs(m) == Transfer(m, "txs", "x", "s", FALSE)

\* ---- stack ----
pla(m) ==
    Let(AddPc(AddClock(debug_opcode(m, <<"pla">>), 4), 1), LAMBDA m1 :
    Let(IncS(m1), LAMBDA m2 :
        Load(m2, \H100 + m2.cpu.s, "a")))

pha(m) ==
    Let(AddPc(AddClock(debug_opcode(m, <<"pha">>), 3), 1), LAMBDA m1 :
        DecS(Wr(m1, \H100 + m1.cpu.s, m1.cpu.a)))

pull_status(m) ==
    Let(IncS(m), LAMBDA m1 :
    Let(Rd(m1, \H100 + m1.cpu.s), LAMBDA r :
    Let(SetReg(r.m, "negative", BitAnd(r.v, \H80) = \H80), LAMBDA m2 :
    Let(SetReg(m2, "overflow", BitAnd(r.v, \H40) = \H40), LAMBDA m3 :
    Let(SetReg(m3, "decimal", BitAnd(r.v, \H08) = \H08), LAMBDA m4 :
    Let(SetReg(m4, "interrupt_disable", BitAnd(r.v, \H04) = \H04), LAMBDA m5 :
    Let(SetReg(m5, "zero", BitAnd(r.v, \H02) = \H02), LAMBDA m6 :
        SetReg(m6, "carry", BitAnd(r.v, \H01) = \H01))))))))

\* the word read is dropped: the program counter is not assigned
pull_pc(m) ==
    Let(IncS(m), LAMBDA m1 :
    Let(RdWord(m1, \H100 + m1.cpu.s), LAMBDA r :
        IncS(r.m)))

plp(m) == pull_status(AddPc(AddClock(debug_opcode(m, <<"plp">>), 4), 1))

\* the byte push_status builds; 0x02 is or-ed in unconditionally
StatusByte(c) ==
    (IF c.negative THEN \H80 ELSE 0)
    + (IF c.overflow THEN \H40 ELSE 0)
    + \H02
    + (IF c.break_flag THEN \H10 ELSE 0)
    + (IF c.decimal THEN \H08 ELSE 0)
    + (IF c.interrupt_disable THEN \H04 ELSE 0)
    + (IF c.carry THEN \H01 ELSE 0)

push_status(m) == DecS(Wr(m, \H100 + m.cpu.s, StatusByte(m.cpu)))

push_word(m, value) ==
    Let(Shr(value, 8), LAMBDA first_byte :
    Let(DecS(Wr(m, \H100 + m.cpu.s, first_byte)), LAMBDA m1 :
    Let(BitAnd(value, \Hff), LAMBDA second_byte :
        DecS(Wr(m1, \H100 + m1.cpu.s, second_byte)))))

php(m) == push_status(AddPc(AddClock(debug_opcode(m, <<"php">>), 3), 1))

\* ---- jump and flag commands ----
\* `(self.pc as i16 + address as i16) as u16` is i16 arithmetic
branch(m, opcode_name) ==
    Let(immediate(m), LAMBDA arg_address :
    Let(Rd(arg_address.m, arg_address.v), LAMBDA address :
    Let(AddPc(address.m, 2), LAMBDA m1 :
    Let(Shr(m1.cpu.pc, 8), LAMBDA prev_page :
    Let(I16(m1.cpu.pc) + I8(address.v), LAMBDA sum :
    Let(SetReg(Checked(m1, sum, -32768, 32767), "pc", U16(sum)), LAMBDA m2 :
    Let(debug_opcode_with_address(m2, opcode_name, m2.cpu.pc), LAMBDA m3 :
    Let(Shr(m2.cpu.pc, 8), LAMBDA new_page :
        IF prev_page # new_page THEN AddClock(m3, 4) ELSE AddClock(m3, 3)))))))))

branch_if(m, condition, opcode_name) ==
    IF condition THEN branch(m, opcode_name)
    ELSE AddPc(AddClock(m, 2), 2)

bpl(m) == branch_if(m, ~m.cpu.negative, "bpl")
bmi(m) == branch_if(m, m.cpu.negative, "bmi")
bvc(m) == branch_if(m, ~m.cpu.overflow, "bvc")
bvs(m) == branch_if(m, m.cpu.overflow, "bvs")
bcc(m) == branch_if(m, ~m.cpu.carry, "bcc")
bcs(m) == branch_if(m, m.cpu.carry, "bcs")
bne(m) == branch_if(m, ~m.cpu.zero, "bne")
beq(m) == branch_if(m, m.cpu.zero, "beq")

brk(m) ==
    Let(AddClock(debug_opcode(m, <<"brk">>), 7), LAMBDA m1 :
    Let(push_word(m1, m1.cpu.pc), LAMBDA m2 :
    Let(RdWord(m2, \Hfffe), LAMBDA r :
    Let(SetReg(r.m, "pc", r.v), LAMBDA m3 :
        SetReg(SetReg(m3, "break_flag", TRUE), "interrupt_disable", TRUE)))))

rti(m) == pull_pc(pull_status(AddClock(debug_opcode(m, <<"rti">>), 6)))

\* jsr pushing self.pc instead of self.pc + 2
jsr_PushesPc(m) ==
    Let(AddClock(debug_opcode(m, <<"jsr">>), 6), LAMBDA m1 :
    Let(push_word(m1, m1.cpu.pc), LAMBDA m2 :
    Let(immediate(m2), LAMBDA arg_address :
    Let(RdWord(arg_address.m, arg_address.v), LAMBDA r :
        SetReg(r.m, "pc", r.v)))))

jsr(m) ==
    Let(AddClock(debug_opcode(m, <<"jsr">>), 6), LAMBDA m1 :
    Let(push_word(Checked(m1, m1.cpu.pc + 2, 0, \Hffff), U16(m1.cpu.pc + 2)), LAMBDA m2 :
    Let(immediate(m2), LAMBDA arg_address :
    Let(RdWord(arg_address.m, arg_address.v), LAMBDA r :
        SetReg(r.m, "pc", r.v)))))

rts(m) == pull_pc(AddClock(debug_opcode(m, <<"rts">>), 6))

\* jmp matches the opcodes 0x24 and 0x2c
jmp(m, opcode) ==
    Let(absolute(m), LAMBDA target :
    Let((CASE opcode = \H24 -> Mode(target, 3, 0)
           [] opcode = \H2c -> Mode(RdWord(target.m, target.v), 5, 0)
           [] OTHER -> UnknownOpcode(m)), LAMBDA md :
    Let(AddClock(md.m, md.clock_increment), LAMBDA m1 :
    Let(debug_opcode_with_address(m1, "jmp", md.address), LAMBDA m2 :
        SetReg(m2, "pc", md.address)))))

bit(m, opcode) ==
    Let((CASE opcode = \H24 -> Mode(zero_page(m), 3, 2)
           [] opcode = \H2c -> Mode(absolute(m), 4, 3)
           [] OTHER -> UnknownOpcode(m)), LAMBDA md :
    Let(debug_opcode_with_address(Charge(md), "bit", md.address), LAMBDA m1 :
    Let(Rd(m1, md.address), LAMBDA r :
    Let(SetReg(r.m, "zero", BitAnd(r.v, m1.cpu.a) = 0), LAMBDA m2 :
    Let(SetReg(m2, "negative", BitAnd(r.v, \H80) = \H80), LAMBDA m3 :
        SetReg(m3, "overflow", BitAnd(r.v, \H40) = \H40))))))

\* a flag instruction: self.clock += 2; self.pc += 1; self.<flag> = value;
SetFlag(m, name, flag, value) ==
    SetReg(Implied(debug_opcode(m, <<name>>)), flag, value)

clc(m) == SetFlag(m, "clc", "carry", FALSE)
sec(m) == SetFlag(m, "sec", "carry", TRUE)
cld(m) == SetFlag(m, "cld", "decimal", FALSE)
sed(m) == SetFlag(m, "sed", "decimal", TRUE)
cli(m) == SetFlag(m, "cli", "interrupt_disable", FALSE)
sei(m) == SetFlag(m, "sei", "interrupt_disable", TRUE)
clv(m) == SetFlag(m, "clv", "overflow", FALSE)

\* Mutant of nop: the instruction is free of charge.
nop_NoCycles(m) == AddPc(debug_opcode(m, <<"nop">>), 1)

nop(m) == Implied(debug_opcode(m, <<"nop">>))

\* ---- the step ----
\* `match opcode` of run_opcode
run_opcode_match(m, opcode) ==
    CASE opcode \in {\H00} -> brk(m)
      [] opcode \in {\H01, \H05, \H0d, \H11, \H15, \H19, \H1d} -> ora(m, opcode)
      [] opcode \in {\H04, \H0c, \H14, \H1a, \H1c, \H34, \H3a, \H3c, \H44, \H54,
                      \H5a, \H5c, \H64, \H74, \H7a, \H7c, \H80, \H82, \H89, \Hc2,
                      \Hd4, \Hda, \Hdc, \He2, \Hea, \Hf4, \Hfa, \Hfc} -> nop(m)
      [] opcode \in {\H06, \H0e, \H16, \H1e} -> asl(m, opcode)
      [] opcode \in {\H08} -> php(m)
      [] opcode \in {\H10} -> bpl(m)
      [] opcode \in {\H18} -> clc(m)
      [] opcode \in {\H20} -> jsr(m)
      [] opcode \in {\H21, \H25, \H29, \H2d, \H31, \H35, \H39, \H3d, \H4d} -> and(m, opcode)
      [] opcode \in {\H24, \H2c, \H4c} -> bit(m, opcode)
      [] opcode \in {\H26, \H2a, \H2e, \H36, \H3e, \H46, \H4a, \H4e} -> rol(m, opcode)
      [] opcode \in {\H28} -> plp(m)
      [] opcode \in {\H30} -> bmi(m)
      [] opcode \in {\H38} -> sec(m)
      [] opcode \in {\H40} -> rti(m)
      [] opcode \in {\H41, \H45, \H49, \H51, \H55, \H59, \H5d} -> eor(m, opcode)
      [] opcode \in {\H48} -> pha(m)
      [] opcode \in {\H50} -> bvc(m)
      [] opcode \in {\H56, \H5e} -> lsr(m, opcode)
      [] opcode \in {\H58} -> cli(m)
      [] opcode \in {\H60} -> rts(m)
      [] opcode \in {\H61, \H65, \H69, \H6d, \H71, \H75, \H79, \H7d} -> adc(m, opcode)
      [] opcode \in {\H66, \H6a, \H6e, \H76, \H7e} -> ror(m, opcode)
      [] opcode \in {\H68} -> pla(m)
      [] opcode \in {\H6c} -> jmp(m, opcode)
      [] opcode \in {\H70} -> bvs(m)
      [] opcode \in {\H78} -> sei(m)
      [] opcode \in {\H81, \H85, \H8d, \H91, \H95, \H99, \H9d} -> sta(m, opcode)
      [] opcode \in {\H84, \H8c, \H94} -> sty(m, opcode)
      [] opcode \in {\H86, \H8e, \H96} -> stx(m, opcode)
      [] opcode \in {\H88} -> dey(m)
      [] opcode \in {\H8a} -> txa(m)
      [] opcode \in {\H90} -> bcc(m)
      [] opcode \in {\H98} -> tya(m)
      [] opcode \in {\H9a} -> txs(m)
      [] opcode \in {\Ha0, \Ha4, \Hac, \Hb4, \Hbc} -> ldy(m, opcode)
      [] opcode \in {\Ha1, \Ha5, \Ha9, \Had, \Hb1, \Hb5, \Hb9, \Hbd} -> lda(m, opcode)
      [] opcode \in {\Ha2, \Ha6, \Hae, \Hb6, \Hbe} -> ldx(m, opcode)
      [] opcode \in {\Ha8} -> tay(m)
      [] opcode \in {\Haa} -> tax(m)
      [] opcode \in {\Hb0} -> bcs(m)
      [] opcode \in {\Hb8} -> clv(m)
      [] opcode \in {\Hba} -> tsx(m)
      [] opcode \in {\Hc0, \Hc4, \Hcc} -> cpy(m, opcode)
      [] opcode \in {\Hc1, \Hc5, \Hc9, \Hcd, \Hd1, \Hd5, \Hd9, \Hdd} -> cmp(m, opcode)
      [] opcode \in {\Hc6, \Hce, \Hd6, \Hde} -> dec(m, opcode)
      [] opcode \in {\Hc8} -> iny(m)
      [] opcode \in {\Hca} -> dex(m)
      [] opcode \in {\Hd0} -> bne(m)
      [] opcode \in {\Hd8} -> cld(m)
      [] opcode \in {\He0, \He4, \Hec} -> cpx(m, opcode)
      [] opcode \in {\He1, \He5, \He9, \Hed, \Hf1, \Hf5, \Hf9, \Hfd} -> sbc(m, opcode)
      [] opcode \in {\He6, \Hee, \Hf6, \Hfe} -> inc(m, opcode)
      [] opcode \in {\He8} -> inx(m)
      [] opcode \in {\Hf0} -> beq(m)
      [] opcode \in {\Hf8} -> sed(m)
      [] OTHER -> Panic(m)

\* the opcodes `match opcode` has an arm for
OpcodeTable ==
    {\H00, \H01, \H04, \H05, \H06, \H08, \H0c, \H0d, \H0e, \H10, \H11, \H14,
     \H15, \H16, \H18, \H19, \H1a, \H1c, \H1d, \H1e, \H20, \H21, \H24, \H25,
     \H26, \H28, \H29, \H2a, \H2c, \H2d, \H2e, \H30, \H31, \H34, \H35, \H36,
     \H38, \H39, \H3a, \H3c, \H3d, \H3e, \H40, \H41, \H44, \H45, \H46, \H48,
     \H49, \H4a, \H4c, \H4d, \H4e, \H50, \H51, \H54, \H55, \H56, \H58, \H59,
     \H5a, \H5c, \H5d, \H5e, \H60, \H61, \H64, \H65, \H66, \H68, \H69, \H6a,
     \H6c, \H6d, \H6e, \H70, \H71, \H74, \H75, \H76, \H78, \H79, \H7a, \H7c,
     \H7d, \H7e, \H80, \H81, \H82, \H84, \H85, \H86, \H88, \H89, \H8a, \H8c,
     \H8d, \H8e, \H90, \H91, \H94, \H95, \H96, \H98, \H99, \H9a, \H9d, \Ha0,
     \Ha1, \Ha2, \Ha4, \Ha5, \Ha6, \Ha8, \Ha9, \Haa, \Hac, \Had, \Hae, \Hb0,
     \Hb1, \Hb4, \Hb5, \Hb6, \Hb8, \Hb9, \Hba, \Hbc, \Hbd, \Hbe, \Hc0, \Hc1,
     \Hc2, \Hc4, \Hc5, \Hc6, \Hc8, \Hc9, \Hca, \Hcc, \Hcd, \Hce, \Hd0, \Hd1,
     \Hd4, \Hd5, \Hd6, \Hd8, \Hd9, \Hda, \Hdc, \Hdd, \Hde, \He0, \He1, \He2,
     \He4, \He5, \He6, \He8, \He9, \Hea, \Hec, \Hed, \Hee, \Hf0, \Hf1, \Hf4,
     \Hf5, \Hf6, \Hf8, \Hf9, \Hfa, \Hfc, \Hfd, \Hfe}

\* Mutant of run_opcode: an opcode without an arm is skipped like a NOP.
run_opcode_SkipsUnknown(m) ==
    Let(save_debug_state(m), LAMBDA m1 :
    Let(Rd(m1, m1.cpu.pc), LAMBDA opcode :
        IF opcode.m.fault THEN opcode.m
        ELSE IF opcode.v \notin OpcodeTable THEN nop(opcode.m)
        ELSE run_opcode_match(opcode.m, opcode.v)))

run_opcode(m) ==
    Let(save_debug_state(m), LAMBDA m1 :
    Let(Rd(m1, m1.cpu.pc), LAMBDA opcode :
        IF opcode.m.fault THEN opcode.m ELSE run_opcode_match(opcode.m, opcode.v)))

\* CPU::new: the load result, and the CPU and System when it is Ok
CPU_new(f, debug_enabled) ==
    Let(System_new(f), LAMBDA n :
    Let(read_word(n.system, \Hfffc), LAMBDA reset_vector :
        IF n.tag # "Ok" THEN [tag |-> n.tag, cpu |-> NoCPU, system |-> NoSystem]
        ELSE IF reset_vector.fault THEN [tag |-> "panic", cpu |-> NoCPU, system |-> NoSystem]
        ELSE [tag |-> "Ok",
              system |-> reset_vector.sys,
              cpu |-> [a |-> 0, x |-> 0, y |-> 0, s |-> \Hfd, pc |-> reset_vector.v,
                       carry |-> FALSE, zero |-> FALSE, interrupt_disable |-> TRUE,
                       decimal |-> FALSE, break_flag |-> FALSE, overflow |-> FALSE,
                       negative |-> FALSE, clock |-> 0,
                       debug_state |-> NoDebugState,
                       debug_enabled |-> debug_enabled]]))

(***************************************************************************)
(* ROM files that hold a program: NOP (0xea) everywhere, the program at    *)
(* CPU address org, and org in the reset vector.                           *)
(***************************************************************************)
\* where the mapper finds CPU address `address` in a file with prg program pages
RomOffset(prg, address) ==
    IF address >= \Hc000 THEN 16 + (prg - 1) * prg_rom_page_size + (address - \Hc000)
    ELSE 16 + (address - \H8000)

ProgramPatch(prg, org, code) ==
    LET lo == RomOffset(prg, \Hfffc)
        hi == RomOffset(prg, \Hfffd)
        at(i) == RomOffset(prg, org + i - 1)
        placed == {at(i) : i \in 1 .. Len(code)}
    IN  [o \in placed \cup {lo, hi} |->
            IF o \in placed THEN code[CHOOSE i \in 1 .. Len(code) : at(i) = o]
            ELSE IF o = lo THEN org % 256
            ELSE org \div 256]

ProgramFile(prg, org, code) ==
    [RomFile(NesMagic, prg, 0, 0, 0, FullLen(prg, 0)) EXCEPT
        !.ramp = FALSE, !.fill = \Hea, !.patch = ProgramPatch(prg, org, code)]

Orgs == {\H8000, \H80f0, \Hbfff, \Hc000}

ArithVals == {\H00, \H01, \H7f, \H80, \Hff}

\* LDA #v, for every byte v
LdaPrograms == {<<\Ha9, v>> : v \in 0 .. 255}

\* LDA #v ; LDA #w
LdaTwicePrograms == {<<\Ha9, v, \Ha9, w>> : v \in ArithVals, w \in ArithVals}

\* LDA #a ; CLC or SEC ; ADC #operand
AdcPrograms ==
    {<<\Ha9, a, c, \H69, operand>> :
        a \in ArithVals, c \in {\H18, \H38}, operand \in ArithVals}

\* BPL, BMI, BVC, BVS, BCC, BCS, BNE, BEQ
BranchOpcodes == {\H10, \H30, \H50, \H70, \H90, \Hb0, \Hd0, \Hf0}

\* a branch with displacement d, right after power-up or after an
\* instruction that sets N (LDA #$80), Z (LDA #$00), C (SEC) or V (ADC #$7f)
BranchPrograms ==
    {prefix \o <<op, d>> :
        prefix \in {<<>>, <<\Ha9, \H80>>, <<\Ha9, \H00>>, <<\H38>>, <<\H69, \H7f>>},
        op \in BranchOpcodes,
        d \in {\H02, \H7f, \H80, \Hfd}}

\* every byte as the opcode of the first instruction, operands 0x10 0x00
OneOpPrograms == {<<op, \H10, \H00>> : op \in 0 .. 255}

\* the programs placed at every origin, in every file size
Programs ==
    LdaTwicePrograms \cup AdcPrograms
    \* BRK
    \cup {<<\H00>>}
    \cup BranchPrograms
    \* LDA #$80, then a byte without an arm in `match opcode`
    \cup {<<\Ha9, \H80, \H02>>}
    \* LDX #s ; TXS ; TXA ; PHA ; PLA
    \cup {<<\Ha2, sp, \H9a, \H8a, \H48, \H68>> : sp \in {\H00, \H01, \H80, \Hfd, \Hff}}
    \* LDX #s ; TXS ; PLA
    \cup {<<\Ha2, sp, \H9a, \H68>> : sp \in {\H00, \Hfe, \Hff}}

\* an instruction that sets one flag (SEC, SED, CLI, LDA #$80 for N,
\* LDA #$00 for Z, ADC #$7f for V) or none, then PHP ; PLP
StatusPrograms ==
    {prefix \o <<\H08, \H28>> :
        prefix \in {<<>>, <<\H38>>, <<\Hf8>>, <<\H58>>, <<\Ha9, \H80>>,
                     <<\Ha9, \H00>>, <<\H69, \H7f>>}}

\* JSR $8004 ; NOP ; RTS, and LDX #s ; TXS ; JSR $8007 ; RTS
JsrPrograms ==
    {<<\H20, \H04, \H80, \Hea, \H60>>}
    \cup {<<\Ha2, sp, \H9a, \H20, \H07, \H80, \Hea, \H60>> : sp \in {\H00, \H01, \H02, \H80}}

\* LDX #s ; TXS ; RTI
RtiPrograms == {<<\Ha2, sp, \H9a, \H40>> : sp \in {\H80, \Hf0, \Hfc, \Hfd}}

\* LDA #a ; CLC or SEC ; SBC #operand
SbcPrograms ==
    {<<\Ha9, a, c, \He9, operand>> :
        a \in ArithVals, c \in {\H18, \H38}, operand \in ArithVals}

\* LDA #a ; CMP #operand
CmpPrograms == {<<\Ha9, a, \Hc9, operand>> : a \in ArithVals, operand \in ArithVals}

\* LDX #v ; INX or DEX, LDY #v ; INY or DEY, and
\* LDX #v ; STX $10 ; INC $10 or DEC $10
IncDecPrograms ==
    {<<\Ha2, v, op>> : v \in ArithVals, op \in {\He8, \Hca}}
    \cup {<<\Ha0, v, op>> : v \in ArithVals, op \in {\Hc8, \H88}}
    \cup {<<\Ha2, v, \H86, \H10, op, \H10>> : v \in ArithVals, op \in {\He6, \Hc6}}

\* ASL, ROL, LSR, ROR on the accumulator and on a zero-page operand
ShiftAOpcodes == {\H0a, \H2a, \H4a, \H6a}
ShiftZpOpcodes == {\H06, \H26, \H46, \H66}

\* LDA #v ; CLC or SEC ; shift A, and
\* LDA #v ; STA $10 ; CLC or SEC ; shift $10
ShiftPrograms ==
    {<<\Ha9, v, c, op>> : v \in ArithVals, c \in {\H18, \H38}, op \in ShiftAOpcodes}
    \cup {<<\Ha9, v, \H85, \H10, c, op, \H10>> :
            v \in ArithVals, c \in {\H18, \H38}, op \in ShiftZpOpcodes}

\* the documented opcodes with absolute,X, absolute,Y and (zp),Y operands
AbsoluteXOpcodes ==
    {\H1d, \H3d, \H5d, \H7d, \Hbd, \Hdd, \Hfd, \Hbc,
     \H9d, \Hfe, \Hde, \H1e, \H5e, \H3e, \H7e}
AbsoluteYOpcodes == {\H19, \H39, \H59, \H79, \Hb9, \Hd9, \Hf9, \Hbe, \H99}
IndirectYOpcodes == {\H11, \H31, \H51, \H71, \Hb1, \Hd1, \Hf1, \H91}

\* LDX #i ; LDY #i ; an absolute-indexed instruction on base 0x0001 or
\* 0xffff, and LDX #p ; STX $10 ; (STX $11 ;) LDY #i ; an instruction on
\* ($10),Y, with the pointer 0x0001 or 0xffff
IndexedPrograms ==
    {<<\Ha2, i, \Ha0, i, op, base[1], base[2]>> :
        i \in {\H01, \Hff}, op \in AbsoluteXOpcodes \cup AbsoluteYOpcodes,
        base \in {<<\H01, \H00>>, <<\Hff, \Hff>>}}
    \cup {<<\Ha2, \H01, \H86, \H10, \Ha0, i, op, \H10>> :
            i \in {\H01, \Hff}, op \in IndirectYOpcodes}
    \cup {<<\Ha2, \Hff, \H86, \H10, \H86, \H11, \Ha0, \H01, op, \H10>> :
            op \in IndirectYOpcodes}

\* the documented opcodes with zero page,X and zero page,Y operands
ZeroPageXOpcodes ==
    {\H15, \H35, \H55, \H75, \H95, \Hb5, \Hd5, \Hf5,
     \H16, \H36, \H56, \H76, \Hd6, \Hf6, \Hb4, \H94}
ZeroPageYOpcodes == {\Hb6, \H96}

\* the index pairs X, Y: sums with 0x10 below and above 0xff
IndexPairs == {<<\H01, \H02>>, <<\Hff, \Hf1>>}

\* LDX #x ; LDY #y ; an instruction on $10,X or $10,Y;
\* LDX #x ; LDY #y ; STX $10+x ; a load from $10,X (STY $10+y ; LDX $10,Y);
\* LDA #$55 ; LDX #x ; STA $10,X
ZeroPagePrograms ==
    {<<\Ha2, xy[1], \Ha0, xy[2], op, \H10>> :
        xy \in IndexPairs, op \in ZeroPageXOpcodes \cup ZeroPageYOpcodes}
    \cup {<<\Ha2, xy[1], \Ha0, xy[2], \H86, (\H10 + xy[1]) % 256, op, \H10>> :
            xy \in IndexPairs, op \in {\Hb5, \Hb4}}
    \cup {<<\Ha2, xy[1], \Ha0, xy[2], \H84, (\H10 + xy[2]) % 256, \Hb6, \H10>> :
            xy \in IndexPairs}
    \cup {<<\Ha9, \H55, \Ha2, xy[1], \H95, \H10>> : xy \in IndexPairs}

\* the programs placed at 0x8000 in a one-page file
ProgramsAt8000 ==
    LdaPrograms \cup OneOpPrograms \cup StatusPrograms \cup JsrPrograms
    \cup RtiPrograms \cup SbcPrograms \cup CmpPrograms \cup IncDecPrograms
    \cup ShiftPrograms \cup IndexedPrograms \cup ZeroPagePrograms
    \* a loop on the video status register: LDA $2002 ; BPL to the LDA
    \cup {<<\Had, \H02, \H20, \H10, \Hfb>>}

\* the word at 0xfffe of a program file is 0xeaea: a program that ends at
\* 0xeae9 with BRK continues at 0xeaea.  BRK ; RTI, SEC ; BRK ; RTI and
\* BRK ; PHP ; PLP
BrkFiles ==
    {ProgramFile(1, \Heae9, <<\H00, \H40>>),
     ProgramFile(1, \Heae8, <<\H38, \H00, \H40>>),
     ProgramFile(1, \Heae9, <<\H00, \H08, \H28>>)}

CpuFiles ==
    {MissingFile, UnreadableFile,
     RomFile(<<\H4e, \H45, \H53, \H00>>, 1, 0, 0, 0, FullLen(1, 0)),
     RomFile(NesMagic, 0, 0, 0, 0, FullLen(0, 0)),
     RomFile(NesMagic, 1, 0, 0, 0, 2),
     RomFile(NesMagic, 1, 0, 0, 0, FullLen(1, 0) - 1)}
    \cup {RomFile(NesMagic, prg, chr, 0, 0, FullLen(prg, chr)) :
            prg \in 1 .. MaxPrg, chr \in 0 .. MaxChr}
    \cup {ProgramFile(1, \H8000, code) : code \in ProgramsAt8000}
    \cup {ProgramFile(prg, \Hbfff, <<\H20, \H04, \H80>>) : prg \in 1 .. MaxPrg}
    \cup BrkFiles
    \cup {ProgramFile(prg, org, code) :
            prg \in 1 .. MaxPrg, org \in Orgs,
            code \in Programs}

(***************************************************************************)
(* Spec: main.  CPU::new on the file, then run_opcode in a loop.           *)
(***************************************************************************)
Init ==
    /\ overflow_checks \in BOOLEAN
    /\ file \in CpuFiles
    /\ loaded = NotLoaded
    /\ system = NoSystem
    /\ cpu = NoCPU
    /\ status = "start"
    /\ ret = NoRet
    /\ stdout = <<>>
    /\ steps = 0

\* CPU::new(args.filename, !args.nodebug); a load error ends main
CPUNew ==
    /\ status = "start"
    /\ \E debug_enabled \in BOOLEAN :
        \E n \in {CPU_new(file, debug_enabled)} :
            /\ cpu' = n.cpu
            /\ system' = n.system
            /\ status' = IF n.tag = "Ok" THEN "running"
                         ELSE IF n.tag = "panic" THEN "panicked"
                         ELSE n.tag
    /\ UNCHANGED <<overflow_checks, file, loaded, ret, stdout, steps>>

\* one iteration of `for _ in 1..100 { cpu.run_opcode(); }`
RunOpcode ==
    /\ status = "running"
    /\ steps < MaxSteps
    /\ \E m \in {run_opcode([cpu |-> cpu, sys |-> system, fault |-> FALSE, out |-> stdout])} :
           /\ cpu' = m.cpu
           /\ system' = m.sys
           /\ stdout' = m.out
           /\ status' = IF m.fault THEN "panicked" ELSE "running"
    /\ steps' = steps + 1
    /\ UNCHANGED <<overflow_checks, file, loaded, ret>>

Next == CPUNew \/ RunOpcode

Spec == Init /\ [][Next]_vars

(***************************************************************************)
(* Claims about CPU::new and single instructions, under Spec.              *)
(***************************************************************************)
\* the byte the CPU finds at `address`, read without changing the system
Peek(address) == read_byte(system, address).v

\* the state CPU::new documents at power-up, but for the program counter
PowerUpRegisters ==
    /\ cpu.a = 0 /\ cpu.x = 0 /\ cpu.y = 0 /\ cpu.s = \Hfd
    /\ cpu.interrupt_disable
    /\ ~cpu.carry /\ ~cpu.zero /\ ~cpu.decimal /\ ~cpu.break_flag
    /\ ~cpu.overflow /\ ~cpu.negative
    /\ cpu.clock = 0

\* C8: for every image the loader accepts -- a program-page count of 0
\* included -- CPU::new returns a CPU with a = x = y = 0, s = 0xfd, only the
\* interrupt-disable flag set, clock 0 and pc the little-endian word at
\* 0xfffc; for every image the loader rejects it returns that load error.
C8_PowerUpState ==
    (status # "start" /\ steps = 0) =>
        LET l == load_to_cart(file)
        IN  IF l.tag = "Ok"
                THEN /\ status = "running"
                     /\ PowerUpRegisters
                     /\ cpu.pc = Peek(\Hfffc) + 256 * Peek(\Hfffd)
            ELSE l.tag \in {"FileNotFound", "IoError", "FileNotARom"} => status = l.tag

\* the step about to run fetches `opcode` at the program counter
Fetches(opcode) ==
    /\ status = "running"
    /\ ~read_byte(system, cpu.pc).fault
    /\ Peek(cpu.pc) = opcode

\* the step taken is one run_opcode call
Stepped == steps' = steps + 1

\* C9: a step that fetches 0xa9 at P with v at P + 1 sets A to v, N to bit 7
\* of v and Z to v = 0, advances pc by 2 and the clock by 2, and leaves X, Y,
\* S, the flags C, I, D, B and V and the memory unchanged.
C9_LdaImmediate ==
    [][(Fetches(\Ha9) /\ Stepped) =>
        LET v == Peek(cpu.pc + 1)
        IN  /\ status' = "running"
            /\ cpu'.a = v
            /\ cpu'.negative = (v >= \H80)
            /\ cpu'.zero = (v = 0)
            /\ cpu'.pc = cpu.pc + 2
            /\ cpu'.clock = cpu.clock + 2
            /\ cpu'.x = cpu.x /\ cpu'.y = cpu.y /\ cpu'.s = cpu.s
            /\ cpu'.carry = cpu.carry
            /\ cpu'.interrupt_disable = cpu.interrupt_disable
            /\ cpu'.decimal = cpu.decimal
            /\ cpu'.break_flag = cpu.break_flag
            /\ cpu'.overflow = cpu.overflow
            /\ system' = system]_vars

\* LDA #$80 ran as the first step: A holds 0x80 and N is set where the
\* power-up state had A = 0 and N clear
C9_Witness ==
    /\ status = "running" /\ steps = 1
    /\ cpu.pc >= 2
    /\ Peek(cpu.pc - 2) = \Ha9 /\ Peek(cpu.pc - 1) = \H80
    /\ cpu.a = \H80 /\ cpu.negative /\ ~cpu.zero
    /\ cpu.clock = 2

\* C10: a step that fetches 0x69 (ADC immediate) with operand M computes
\* t = A + M + c, c the carry flag as 0 or 1: A becomes the low eight bits
\* of t, V is set exactly when t is outside -128..127, C exactly when t has
\* a bit set above the low eight, and N and Z follow the new A.
C10_AdcAddsCarryIn ==
    [][(Fetches(\H69) /\ Stepped) =>
        LET M == Peek(cpu.pc + 1)
            c == IF cpu.carry THEN 1 ELSE 0
            t == cpu.a + M + c
        IN  /\ status' = "running"
            /\ cpu'.a = t % 256
            /\ cpu'.overflow = (t \notin -128 .. 127)
            /\ cpu'.carry = (t > 255)
            /\ cpu'.negative = (cpu'.a >= \H80)
            /\ cpu'.zero = (cpu'.a = 0)]_vars

\* the byte in RAM cell `index` after the step
RamAfter(index) == RamGet(system'.scratch_ram, index)

\* C11: BRK at program counter P with stack pointer S pushes the
\* already-advanced program counter (not P itself), high byte to 0x0100 + S
\* and low byte to 0x0100 + S - 1, leaves the stack pointer at S - 2, sets pc
\* to the word at 0xfffe/0xffff and sets the break and interrupt-disable flags.
C11_BrkPushesAdvancedPc ==
    [][(Fetches(\H00) /\ Stepped /\ cpu.s >= 2) =>
        LET pushed == RamAfter(\H100 + cpu.s) * 256 + RamAfter(\H100 + cpu.s - 1)
        IN  /\ status' = "running"
            /\ pushed # cpu.pc
            /\ cpu'.s = cpu.s - 2
            /\ cpu'.pc = Peek(\Hfffe) + 256 * Peek(\Hffff)
            /\ cpu'.break_flag
            /\ cpu'.interrupt_disable]_vars

\* the condition each branch instruction tests, on the flags before the step
BranchCondition(opcode) ==
    CASE opcode = \H10 -> ~cpu.negative
      [] opcode = \H30 -> cpu.negative
      [] opcode = \H50 -> ~cpu.overflow
      [] opcode = \H70 -> cpu.overflow
      [] opcode = \H90 -> ~cpu.carry
      [] opcode = \Hb0 -> cpu.carry
      [] opcode = \Hd0 -> ~cpu.zero
      [] opcode = \Hf0 -> cpu.zero

\* the step leaves every register and flag but pc as it was, and the memory
OnlyPcAndClockChange ==
    /\ cpu'.a = cpu.a /\ cpu'.x = cpu.x /\ cpu'.y = cpu.y /\ cpu'.s = cpu.s
    /\ cpu'.carry = cpu.carry /\ cpu'.zero = cpu.zero
    /\ cpu'.interrupt_disable = cpu.interrupt_disable
    /\ cpu'.decimal = cpu.decimal /\ cpu'.break_flag = cpu.break_flag
    /\ cpu'.overflow = cpu.overflow /\ cpu'.negative = cpu.negative
    /\ system' = system

\* what the claim says a branch `opcode` at cpu.pc does
BranchAsClaimed(opcode) ==
    LET d == I8(Peek(cpu.pc + 1))
        next == cpu.pc + 2
        target == U16(next + d)
    IN  /\ status' = "running"
        /\ OnlyPcAndClockChange
        /\ IF ~BranchCondition(opcode)
               THEN cpu'.pc = next /\ cpu'.clock = cpu.clock + 2
           ELSE /\ cpu'.pc = target
                /\ cpu'.clock = cpu.clock
                                + (IF Shr(target, 8) = Shr(next, 8) THEN 3 ELSE 4)

\* C12: a branch at P with signed displacement d sets pc = P + 2 and charges
\* 2 cycles when its condition is false; when it is true it sets
\* pc = (P + 2 + d) mod 2^16 and charges 3 cycles if the target is in the
\* page of P + 2 and 4 if not; nothing but pc (and the clock) changes.
C12_BranchTargetAndCycles ==
    [][\A opcode \in BranchOpcodes :
        (Fetches(opcode) /\ Stepped) => BranchAsClaimed(opcode)]_vars

\* the step about to run fetches an opcode that has no arm in `match opcode`
FetchesUnknown ==
    /\ status = "running"
    /\ ~read_byte(system, cpu.pc).fault
    /\ Peek(cpu.pc) \notin OpcodeTable

\* C13: a step whose fetched opcode has no entry in the opcode table ends in
\* the fatal state with every register, flag, the cycle counter and every
\* memory cell unchanged, and nothing is executed after the fatal state.
C13_UnknownOpcodeIsFatal ==
    [][/\ (FetchesUnknown /\ Stepped) =>
            /\ status' = "panicked"
            /\ cpu' = [cpu EXCEPT !.debug_state = cpu'.debug_state]
            /\ system' = system
       /\ status # "panicked"]_vars

\* the byte 0x02 was fetched after LDA #$80: the run is over, A still 0x80
C13_Witness ==
    /\ status = "panicked" /\ steps = 2
    /\ ~read_byte(system, cpu.pc).fault
    /\ Peek(cpu.pc) = \H02
    /\ cpu.a = \H80 /\ cpu.negative /\ cpu.clock = 2

\* n calls of run_opcode in a row, stopping at a panic
RECURSIVE RunSteps(_, _)
RunSteps(m, n) ==
    IF n = 0 \/ m.fault THEN m ELSE RunSteps(run_opcode(m), n - 1)

\* the machine after CPU::new on file f and n steps (f an image CPU::new accepts)
Replay(f, debug_enabled, n) ==
    Let(CPU_new(f, debug_enabled), LAMBDA c :
        RunSteps([cpu |-> c.cpu, sys |-> c.system, fault |-> FALSE, out |-> <<>>], n))

\* registers, flags and cycle counter: the CPU without its tracing fields
Registers(c) == [c EXCEPT !.debug_state = NoDebugState, !.debug_enabled = FALSE]

\* a CPU exists: CPU::new returned one
CpuCreated == status = "running" \/ (status = "panicked" /\ steps > 0)

\* C14: the CPU made from the same image with the other tracing setting has,
\* after the same number of steps, the same registers, flags, cycle counter
\* and memory (and stopped on a panic or not alike); with tracing disabled
\* no snapshot is stored and nothing is printed.
C14_TracingDoesNotAlterState ==
    CpuCreated =>
        /\ LET other == Replay(file, ~cpu.debug_enabled, steps)
           IN  /\ Registers(other.cpu) = Registers(cpu)
               /\ other.sys = system
               /\ other.fault = (status = "panicked")
        /\ ~cpu.debug_enabled => (cpu.debug_state = NoDebugState /\ stdout = <<>>)

\* a traced run two steps in: two lines printed, a snapshot stored, A loaded
C14_Witness ==
    /\ status = "running" /\ steps = 2
    /\ cpu.debug_enabled
    /\ Len(stdout) = 2
    /\ cpu.debug_state # NoDebugState
    /\ cpu.a = \H80 /\ cpu.clock = 4

(***************************************************************************)
(* Claims about the cartridge range of the bus, under SpecBus.             *)
(***************************************************************************)
\* C15: for every address in 0x4020..0x7fff read_byte returns 0 and
\* write_byte is ignored; neither is an error or ends the execution.
C15_UnmappedCartridgeRange ==
    [][(ret'.op \in {"read_byte", "write_byte"}
            /\ ret'.address >= \H4020 /\ ret'.address <= \H7fff) =>
        /\ ~ret'.fault
        /\ status' = "running"
        /\ ret'.v = 0
        /\ system' = system]_vars

\* the system as System::new made it from the file
SystemAtLoad == System_new(file).system

\* C16: after any sequence of bus calls, writes to 0x4020..0xffff included,
\* the cartridge (its pages and every header-derived field) is as it was at
\* load time, and read_byte of an address >= 0x8000 gives what it gave then.
C16_CartridgeIsImmutable ==
    /\ system.cart = SystemAtLoad.cart
    /\ \A address \in {a \in BusAddrs : a >= \H8000} :
        LET now == read_byte(system, address)
            then == read_byte(SystemAtLoad, address)
        IN  now.v = then.v /\ now.fault = then.fault

\* 0xff was just written to 0x8000 and the byte there is still the ROM's
C16_Witness ==
    /\ ret.op = "write_byte" /\ ret.address = \H8000 /\ ret.value = \Hff
    /\ ~ret.fault
    /\ Len(system.cart.prg_rom_pages) >= 1
    /\ ~read_byte(system, \H8000).fault
    /\ read_byte(system, \H8000).v = RampByte(16)

(***************************************************************************)
(* Claims about the cycle counter, under Spec.                             *)
(***************************************************************************)
\* C17: every step that completes without a fatal error leaves the cycle
\* counter at least 2 greater than before, and no step ever decreases it.
C17_ClockStrictlyIncreases ==
    [][Stepped =>
        /\ cpu'.clock >= cpu.clock
        /\ status' = "running" => cpu'.clock >= cpu.clock + 2]_vars

\* three instructions ran, one of them dearer than 2 cycles
C17_Witness ==
    /\ status = "running" /\ steps = 3
    /\ cpu.clock > 6

(***************************************************************************)
(* SpecPpu: the PPU's methods tick, read_address and write_address called  *)
(* in any order on the PPU of a fresh System.                              *)
(***************************************************************************)
\* cycle counts passed to tick: none, one, a scanline, 20 scanlines, and
\* the 242 scanlines before vblank
TickCycles == {0, 1, 341, 341 * 20, CLOCKS_PER_FRAME_BEFORE_VBLANK}

PpuAddrs == {\H2000, \H2002, \H3fff}

InitPpu ==
    /\ overflow_checks \in BOOLEAN
    /\ file = MissingFile
    /\ loaded = NotLoaded
    /\ system = NoSystem
    /\ cpu = NoCPU
    /\ status = "running"
    /\ ret = NoRet
    /\ stdout = <<>>
    /\ steps = 0

PpuCall(op, address, value, ppu, v) ==
    /\ steps < MaxPpuCalls
    /\ system' = [system EXCEPT !.ppu = ppu]
    /\ ret' = [op |-> op, address |-> address, value |-> value,
               v |-> v, fault |-> FALSE]
    /\ steps' = steps + 1
    /\ UNCHANGED <<overflow_checks, file, loaded, cpu, status, stdout>>

PpuTick ==
    \E cycles \in TickCycles :
        PpuCall("tick", 0, cycles, PPU_tick(system.ppu, cycles), 0)

PpuRead ==
    \E address \in PpuAddrs :
        \E r \in {PPU_read_address(system.ppu, address)} :
            PpuCall("read_address", address, 0, r.ppu, r.v)

PpuWrite ==
    \E address \in PpuAddrs, value \in ByteVals :
        PpuCall("write_address", address, value,
                PPU_write_address(system.ppu, address, value), 0)

NextPpu == PpuTick \/ PpuRead \/ PpuWrite

SpecPpu == InitPpu /\ [][NextPpu]_vars

\* the clock is more than 341 * 242 units into its frame
InVblankPeriod(ppu) ==
    ppu.clock % CLOCKS_PER_FRAME > CLOCKS_PER_FRAME_BEFORE_VBLANK

\* C18: read_address returns 0x80 if the vblank flag is set when it is
\* called and 0x00 if not, for every address, and the flag is false right
\* after the read; write_address changes nothing in the PPU.
C18_PpuReadClearsVblank ==
    [][/\ (steps' = steps + 1 /\ ret'.op = "read_address") =>
            /\ ret'.v = (IF system.ppu.in_vblank THEN \H80 ELSE \H00)
            /\ ~system'.ppu.in_vblank
            /\ system'.ppu.clock = system.ppu.clock
       /\ (steps' = steps + 1 /\ ret'.op = "write_address") =>
            system'.ppu = system.ppu]_vars

\* a read during vblank returned 0x80 and cleared the flag
C18_Witness ==
    /\ ret.op = "read_address" /\ ret.v = \H80
    /\ ~system.ppu.in_vblank
    /\ InVblankPeriod(system.ppu)

\* C19: right after every tick, whatever ticks and reads came before, the
\* vblank flag is true exactly when the cumulative clock modulo 341 * 262 is
\* more than 341 * 242; it is false again once the frame wraps around.
C19_VblankFollowsClock ==
    ret.op = "tick" => (system.ppu.in_vblank = InVblankPeriod(system.ppu))

\* a tick ended exactly at the end of the first frame: the flag is false
C19_Witness ==
    /\ ret.op = "tick"
    /\ system.ppu.clock = CLOCKS_PER_FRAME
    /\ ~system.ppu.in_vblank

(***************************************************************************)
(* Claims about the stack, under Spec.                                     *)
(***************************************************************************)
\* what the claim says PHA does: the byte goes to 0x0100 + S, then S - 1
PushAsClaimed ==
    /\ status' = "running"
    /\ RamAfter(\H100 + cpu.s) = cpu.a
    /\ cpu'.s = (cpu.s - 1) % 256

\* what the claim says PLA does: S + 1 first, then the byte at 0x0100 + S
PullAsClaimed ==
    /\ status' = "running"
    /\ cpu'.s = (cpu.s + 1) % 256
    /\ cpu'.a = RamGet(system.scratch_ram, \H100 + cpu'.s)

\* C20: a push writes the byte at 0x0100 + S and then sets S to
\* (S - 1) mod 256; a pull sets S to (S + 1) mod 256 and then reads
\* 0x0100 + S; for every S, a push at 0x00 and a pull at 0xff included,
\* without a fault.
C20_StackWrapsWithoutFault ==
    [][/\ (Fetches(\H48) /\ Stepped) => PushAsClaimed
       /\ (Fetches(\H68) /\ Stepped) => PullAsClaimed]_vars

\* bit `n` of `byte` is set
BitSet(byte, n) == BitAnd(byte, 2 ^ n) # 0

\* C21: PHP pushes a byte whose bit 5 is 1, whose bit 4 is the break flag
\* and whose bits 7, 6, 3, 2, 1, 0 are the negative, overflow, decimal,
\* interrupt-disable, zero and carry flags; bit 1 is 0 when the zero flag
\* is clear.
C21_PhpStatusByte ==
    [][(Fetches(\H08) /\ Stepped /\ cpu.s >= 1) =>
        LET pushed == RamAfter(\H100 + cpu.s)
        IN  /\ status' = "running"
            /\ BitSet(pushed, 5)
            /\ BitSet(pushed, 4) = cpu.break_flag
            /\ BitSet(pushed, 7) = cpu.negative
            /\ BitSet(pushed, 6) = cpu.overflow
            /\ BitSet(pushed, 3) = cpu.decimal
            /\ BitSet(pushed, 2) = cpu.interrupt_disable
            /\ BitSet(pushed, 1) = cpu.zero
            /\ BitSet(pushed, 0) = cpu.carry]_vars

\* the step leaves the seven flags as they were
FlagsUnchanged ==
    /\ cpu'.carry = cpu.carry /\ cpu'.zero = cpu.zero
    /\ cpu'.interrupt_disable = cpu.interrupt_disable
    /\ cpu'.decimal = cpu.decimal /\ cpu'.break_flag = cpu.break_flag
    /\ cpu'.overflow = cpu.overflow /\ cpu'.negative = cpu.negative

C23_RtsReturns ==
    [][(Fetches(\H60) /\ Stepped /\ cpu.s <= \Hfd) =>
        /\ status' = "running"
        /\ cpu'.pc = RamGet(system.scratch_ram, \H100 + cpu.s + 1)
                     + 256 * RamGet(system.scratch_ram, \H100 + cpu.s + 2)
        /\ cpu'.s = cpu.s + 2]_vars

\* C24: RTI with stack pointer S pulls the byte at 0x0100 + S + 1 and loads
\* the negative, overflow, decimal, interrupt-disable, zero and carry flags
\* from its bits 7, 6, 3, 2, 1, 0, then pulls the word at 0x0100 + S + 2 /
\* S + 3 into pc, leaving the stack pointer at S + 3 (the reverse of a BRK
\* that pushed the program counter and then the status).
C24_RtiReversesBrk ==
    [][(Fetches(\H40) /\ Stepped /\ cpu.s <= \Hfc) =>
        LET pulled == RamGet(system.scratch_ram, \H100 + cpu.s + 1)
        IN  /\ status' = "running"
            /\ cpu'.negative = BitSet(pulled, 7)
            /\ cpu'.overflow = BitSet(pulled, 6)
            /\ cpu'.decimal = BitSet(pulled, 3)
            /\ cpu'.interrupt_disable = BitSet(pulled, 2)
            /\ cpu'.zero = BitSet(pulled, 1)
            /\ cpu'.carry = BitSet(pulled, 0)
            /\ cpu'.pc = RamGet(system.scratch_ram, \H100 + cpu.s + 2)
                         + 256 * RamGet(system.scratch_ram, \H100 + cpu.s + 3)
            /\ cpu'.s = cpu.s + 3]_vars

\* the operand byte M of a compare `opcode` fetched at cpu.pc: immediate,
\* zero page or absolute
CompareOperand(opcode) ==
    CASE opcode \in {\He0, \Hc0} -> Peek(cpu.pc + 1)
      [] opcode \in {\He4, \Hc4} -> Peek(Peek(cpu.pc + 1))
      [] opcode \in {\Hec, \Hcc} -> Peek(Peek(cpu.pc + 1) + 256 * Peek(cpu.pc + 2))

\* C25: CPX (0xe0, 0xe4, 0xec) compares X and CPY (0xc0, 0xc4, 0xcc)
\* compares Y with the operand M: the step completes without a fault and
\* sets Z to R = M, C to R >= M and N to bit 7 of (R - M) mod 256, leaving
\* V, A, X and Y unchanged.
C25_CpxCpyCompare ==
    [][\A opcode \in {\He0, \He4, \Hec, \Hc0, \Hc4, \Hcc} :
        (Fetches(opcode) /\ Stepped) =>
            LET R == IF opcode \in {\He0, \He4, \Hec} THEN cpu.x ELSE cpu.y
                M == CompareOperand(opcode)
            IN  /\ status' = "running"
                /\ cpu'.zero = (R = M)
                /\ cpu'.carry = (R >= M)
                /\ cpu'.negative = BitSet((R - M) % 256, 7)
                /\ cpu'.overflow = cpu.overflow
                /\ cpu'.a = cpu.a /\ cpu'.x = cpu.x /\ cpu'.y = cpu.y]_vars

\* C26: a step that fetches 0xe9 (SBC immediate) with operand M computes
\* t = A - M - (1 - c), c the carry flag as 0 or 1: A becomes t mod 256, V
\* is set exactly when t is outside -128..127, C exactly when the unsigned
\* 16-bit form of t has a bit set above bit 7, and N and Z follow the new A.
C26_SbcIntermediate ==
    [][(Fetches(\He9) /\ Stepped) =>
        LET M == Peek(cpu.pc + 1)
            c == IF cpu.carry THEN 1 ELSE 0
            t == cpu.a - M - (1 - c)
        IN  /\ status' = "running"
            /\ cpu'.a = t % 256
            /\ cpu'.overflow = (t \notin -128 .. 127)
            /\ cpu'.carry = ((t % 65536) \div 256 # 0)
            /\ cpu'.negative = (cpu'.a >= \H80)
            /\ cpu'.zero = (cpu'.a = 0)]_vars

\* LDA #$00 ; CLC ; SBC #$01 ran: t = 0 - 1 - 1 = -2, so A = 0xfe, C and N
\* are set and V and Z are clear
C26_Witness ==
    /\ status = "running" /\ steps = 3
    /\ Peek(\H8000) = \Ha9 /\ Peek(\H8001) = \H00
    /\ Peek(\H8002) = \H18
    /\ Peek(\H8003) = \He9 /\ Peek(\H8004) = \H01
    /\ cpu.pc = \H8005
    /\ cpu.a = \Hfe /\ cpu.carry /\ cpu.negative /\ ~cpu.overflow /\ ~cpu.zero

\* C27: the carry after CMP of A against M (0xc9) and the carry after SBC
\* of M from A with the carry set (0xe9) are both set exactly when A >= M.
C27_CompareAndSubtractAgree ==
    [][LET M == Peek(cpu.pc + 1)
       IN  /\ (Fetches(\Hc9) /\ Stepped) =>
                (status' = "running" /\ cpu'.carry = (cpu.a >= M))
           /\ (Fetches(\He9) /\ Stepped /\ cpu.carry) =>
                (status' = "running" /\ cpu'.carry = (cpu.a >= M))]_vars

\* what the claim says an increment (delta 1) or decrement (delta -1) of
\* `old` does, `new` being the value stored by the step
StepAsClaimed(old, new, delta) ==
    /\ status' = "running"
    /\ new = (old + delta) % 256
    /\ cpu'.negative = (new >= \H80)
    /\ cpu'.zero = (new = 0)
    /\ cpu'.carry = cpu.carry
    /\ cpu'.overflow = cpu.overflow

\* C28: INX, INY, DEX, DEY and INC, DEC on a zero-page operand store
\* (old + 1) mod 256 or (old - 1) mod 256 for every old value, 0xff + 1 = 0
\* and 0x00 - 1 = 0xff included, without a fault, set N and Z from the new
\* value and leave C and V unchanged.
C28_IncDecWrap ==
    [][/\ (Fetches(\He8) /\ Stepped) => StepAsClaimed(cpu.x, cpu'.x, 1)
       /\ (Fetches(\Hca) /\ Stepped) => StepAsClaimed(cpu.x, cpu'.x, -1)
       /\ (Fetches(\Hc8) /\ Stepped) => StepAsClaimed(cpu.y, cpu'.y, 1)
       /\ (Fetches(\H88) /\ Stepped) => StepAsClaimed(cpu.y, cpu'.y, -1)
       /\ (Fetches(\He6) /\ Stepped) =>
            StepAsClaimed(Peek(Peek(cpu.pc + 1)), RamAfter(Peek(cpu.pc + 1)), 1)
       /\ (Fetches(\Hc6) /\ Stepped) =>
            StepAsClaimed(Peek(Peek(cpu.pc + 1)), RamAfter(Peek(cpu.pc + 1)), -1)]_vars

\* the accumulator form `opcode` of a shift run on the current state with
\* `value` in the accumulator
AccumulatorForm(opcode, value) ==
    LET m == [cpu |-> [cpu EXCEPT !.a = value], sys |-> system,
              fault |-> FALSE, out |-> stdout]
    IN  CASE opcode = \H0a -> asl(m, opcode)
          [] opcode = \H2a -> rol(m, opcode)
          [] opcode = \H4a -> lsr(m, opcode)
          [] opcode = \H6a -> ror(m, opcode)

\* the bit a shift `opcode` moves out of `value`: bit 7 for ASL and ROL,
\* bit 0 for LSR and ROR
ShiftedOut(opcode, value) ==
    IF opcode \in {\H0a, \H2a, \H06, \H26} THEN BitSet(value, 7) ELSE BitSet(value, 0)

\* accumulator opcode and zero-page opcode of ASL, ROL, LSR, ROR
ShiftForms == {<<\H0a, \H06>>, <<\H2a, \H26>>, <<\H4a, \H46>>, <<\H6a, \H66>>}

\* C29: for ASL, ROL, LSR and ROR the memory form, on the same input byte
\* and carry-in, gives the result byte and the C, N and Z flags that the
\* accumulator form gives; in both forms C receives the bit shifted out and
\* N and Z are those of the result.
C29_ShiftFormsAgree ==
    [][\A forms \in ShiftForms :
        /\ (Fetches(forms[1]) /\ Stepped) =>
            /\ status' = "running"
            /\ cpu'.carry = ShiftedOut(forms[1], cpu.a)
            /\ cpu'.negative = (cpu'.a >= \H80)
            /\ cpu'.zero = (cpu'.a = 0)
        /\ (Fetches(forms[2]) /\ Stepped) =>
            LET address == Peek(cpu.pc + 1)
                value == Peek(address)
                acc == AccumulatorForm(forms[1], value)
            IN  /\ status' = "running"
                /\ RamAfter(address) = acc.cpu.a
                /\ cpu'.carry = acc.cpu.carry
                /\ cpu'.negative = acc.cpu.negative
                /\ cpu'.zero = acc.cpu.zero
                /\ cpu'.carry = ShiftedOut(forms[2], value)
                /\ cpu'.negative = (RamAfter(address) >= \H80)
                /\ cpu'.zero = (RamAfter(address) = 0)]_vars

\* what the claim says a rotate of `value` gives as `result`: the carry-in
\* enters at bit 0 (ROL) or bit 7 (ROR), the bit moved out is the carry-out
RotateAsClaimed(left, value, result) ==
    LET c == IF cpu.carry THEN 1 ELSE 0
    IN  /\ status' = "running"
        /\ result = IF left THEN (value * 2 + c) % 256
                    ELSE value \div 2 + 128 * c
        /\ cpu'.carry = BitSet(value, IF left THEN 7 ELSE 0)

\* C30: for every byte v and carry-in c, ROL gives ((v << 1) | c) mod 256
\* with carry-out bit 7 of v, and ROR gives (v >> 1) | (c << 7) with
\* carry-out bit 0 of v, on the accumulator and on a zero-page operand,
\* without a fault for either c.
C30_RotateThroughCarry ==
    [][/\ (Fetches(\H2a) /\ Stepped) => RotateAsClaimed(TRUE, cpu.a, cpu'.a)
       /\ (Fetches(\H6a) /\ Stepped) => RotateAsClaimed(FALSE, cpu.a, cpu'.a)
       /\ (Fetches(\H26) /\ Stepped) =>
            RotateAsClaimed(TRUE, Peek(Peek(cpu.pc + 1)), RamAfter(Peek(cpu.pc + 1)))
       /\ (Fetches(\H66) /\ Stepped) =>
            RotateAsClaimed(FALSE, Peek(Peek(cpu.pc + 1)), RamAfter(Peek(cpu.pc + 1)))]_vars

(***************************************************************************)
(* Claims about the opcode table and the addressing modes, under Spec.     *)
(***************************************************************************)
\* the 151 documented opcodes of the instruction set, by family
DocumentedOpcodes ==
    \* ADC
       {\H69, \H65, \H75, \H6d, \H7d, \H79, \H61, \H71}
    \* AND
    \cup {\H29, \H25, \H35, \H2d, \H3d, \H39, \H21, \H31}
    \* ASL
    \cup {\H0a, \H06, \H16, \H0e, \H1e}
    \* BIT
    \cup {\H24, \H2c}
    \* Branches
    \cup {\H10, \H30, \H50, \H70, \H90, \Hb0, \Hd0, \Hf0}
    \* BRK
    \cup {\H00}
    \* CMP
    \cup {\Hc9, \Hc5, \Hd5, \Hcd, \Hdd, \Hd9, \Hc1, \Hd1}
    \* CPX
    \cup {\He0, \He4, \Hec}
    \* CPY
    \cup {\Hc0, \Hc4, \Hcc}
    \* DEC
    \cup {\Hc6, \Hd6, \Hce, \Hde}
    \* EOR
    \cup {\H49, \H45, \H55, \H4d, \H5d, \H59, \H41, \H51}
    \* Flags
    \cup {\H18, \H38, \H58, \H78, \Hb8, \Hd8, \Hf8}
    \* INC
    \cup {\He6, \Hf6, \Hee, \Hfe}
    \* JMP
    \cup {\H4c, \H6c}
    \* JSR
    \cup {\H20}
    \* LDA
    \cup {\Ha9, \Ha5, \Hb5, \Had, \Hbd, \Hb9, \Ha1, \Hb1}
    \* LDX
    \cup {\Ha2, \Ha6, \Hb6, \Hae, \Hbe}
    \* LDY
    \cup {\Ha0, \Ha4, \Hb4, \Hac, \Hbc}
    \* LSR
    \cup {\H4a, \H46, \H56, \H4e, \H5e}
    \* NOP
    \cup {\Hea}
    \* ORA
    \cup {\H09, \H05, \H15, \H0d, \H1d, \H19, \H01, \H11}
    \* Register
    \cup {\Haa, \H8a, \Hca, \He8, \Ha8, \H98, \H88, \Hc8}
    \* ROL
    \cup {\H2a, \H26, \H36, \H2e, \H3e}
    \* ROR
    \cup {\H6a, \H66, \H76, \H6e, \H7e}
    \* RTI
    \cup {\H40}
    \* RTS
    \cup {\H60}
    \* SBC
    \cup {\He9, \He5, \Hf5, \Hed, \Hfd, \Hf9, \He1, \Hf1}
    \* STA
    \cup {\H85, \H95, \H8d, \H9d, \H99, \H81, \H91}
    \* Stack
    \cup {\H9a, \Hba, \H48, \H68, \H08, \H28}
    \* STX
    \cup {\H86, \H96, \H8e}
    \* STY
    \cup {\H84, \H94, \H8c}

\* C31: a step that fetches a documented opcode runs that instruction: it
\* never ends in the fatal unknown-opcode path.  (Stated for a build that
\* wraps on overflow, where a step that fetched its opcode from ROM and has
\* its operands in RAM can only fail on an unknown opcode.)
C31_OpcodeTableComplete ==
    [][\A opcode \in DocumentedOpcodes :
        (Fetches(opcode) /\ Stepped /\ ~overflow_checks) => status' = "running"]_vars

\* C32: every opcode that has an arm in run_opcode's match is accepted by
\* the handler the arm calls, so a step that fetches one never ends in an
\* unknown-opcode panic.  (Stated for a build that wraps on overflow, as
\* C31.)
C32_DispatchAndHandlersAgree ==
    [][\A opcode \in OpcodeTable :
        (Fetches(opcode) /\ Stepped /\ ~overflow_checks) => status' = "running"]_vars

\* branches, JMP, JSR, RTS, RTI and BRK
ControlFlowOpcodes ==
    BranchOpcodes \cup {\H4c, \H6c, \H20, \H60, \H40, \H00}

\* the encoded length of a documented opcode, from its addressing mode:
\* 1 for implied and accumulator (low nibble 8 or a), 3 for absolute and
\* absolute indexed (low nibble c, d, e, and 9 in an odd row), 2 for the rest
EncodedLength(opcode) ==
    LET low == opcode % 16
        high == opcode \div 16
    IN  IF low \in {\H8, \Ha} THEN 1
        ELSE IF low \in {\Hc, \Hd, \He} \/ (low = \H9 /\ high % 2 = 1) THEN 3
        ELSE 2

\* C33: a completed step of a documented instruction other than a branch,
\* JMP, JSR, RTS, RTI or BRK advances pc by exactly its encoded length:
\* 1 for implied and accumulator, 2 for immediate, zero page, zero page
\* indexed and the two indirect modes, 3 for absolute and absolute indexed.
C33_PcAdvancesByLength ==
    [][\A opcode \in DocumentedOpcodes \ ControlFlowOpcodes :
        (Fetches(opcode) /\ Stepped /\ status' = "running") =>
            cpu'.pc = cpu.pc + EncodedLength(opcode)]_vars

\* the base address and the index of the indexed instruction at cpu.pc
IndexedBase(opcode) ==
    IF opcode \in IndirectYOpcodes
        THEN Peek(Peek(cpu.pc + 1)) + 256 * Peek(Peek(cpu.pc + 1) + 1)
    ELSE Peek(cpu.pc + 1) + 256 * Peek(cpu.pc + 2)

IndexOf(opcode) == IF opcode \in AbsoluteXOpcodes THEN cpu.x ELSE cpu.y

\* the cycles the same instruction charges with both index registers at
\* 0, where base + index is in the page of base
CyclesUnindexed ==
    run_opcode([cpu |-> [cpu EXCEPT !.x = 0, !.y = 0], sys |-> system,
                fault |-> FALSE, out |-> stdout]).cpu.clock - cpu.clock

\* the stores and read-modify-write instructions among the indexed opcodes
IndexedWriteOpcodes == {\H9d, \H99, \H91, \Hfe, \Hde, \H1e, \H5e, \H3e, \H7e}

\* C34: an instruction with an absolute,X, absolute,Y or (zp),Y operand
\* completes without a fault with the effective address
\* (base + index) mod 2^16; a read instruction charges one cycle more when
\* that address is in another page than base, a store or read-modify-write
\* charges the same cycles either way; LDA loads from the effective address.
C34_PageCrossPenalty ==
    [][\A opcode \in AbsoluteXOpcodes \cup AbsoluteYOpcodes \cup IndirectYOpcodes :
        (Fetches(opcode) /\ Stepped) =>
            LET base == IndexedBase(opcode)
                effective == (base + IndexOf(opcode)) % 65536
                crossed == effective \div 256 # base \div 256
            IN  /\ status' = "running"
                /\ cpu'.clock - cpu.clock =
                     CyclesUnindexed
                     + (IF crossed /\ opcode \notin IndexedWriteOpcodes THEN 1 ELSE 0)
                /\ opcode \in {\Hbd, \Hb9, \Hb1} => cpu'.a = Peek(effective)]_vars

\* the operand address the claim gives a zero-page-indexed `opcode` at
\* cpu.pc: (operand byte + the index register its mode names) mod 256
ZeroPageIndexed(opcode) ==
    (Peek(cpu.pc + 1) + (IF opcode \in ZeroPageYOpcodes THEN cpu.y ELSE cpu.x)) % 256

\* C35: an instruction with a zero page,X or zero page,Y operand completes
\* without a fault and uses the address (operand byte + index) mod 256,
\* with the index register its mode names, sums above 0xff included: the
\* loads LDA, LDY (X) and LDX (Y) read it and the stores STA, STY (X) and
\* STX (Y) write it.
C35_ZeroPageIndexedWraps ==
    [][\A opcode \in ZeroPageXOpcodes \cup ZeroPageYOpcodes :
        (Fetches(opcode) /\ Stepped) =>
            LET address == ZeroPageIndexed(opcode)
            IN  /\ status' = "running"
                /\ opcode = \Hb5 => cpu'.a = Peek(address)
                /\ opcode = \Hb4 => cpu'.y = Peek(address)
                /\ opcode = \Hb6 => cpu'.x = Peek(address)
                /\ opcode = \H95 => RamAfter(address) = cpu.a
                /\ opcode = \H94 => RamAfter(address) = cpu.y
                /\ opcode = \H96 => RamAfter(address) = cpu.x]_vars

(***************************************************************************)
(* Claims about the run loop and the video clock, under Spec.              *)
(***************************************************************************)
\* C36: the run loop advances the video clock with the CPU cycle counter
\* after every step it completes (which is what lets a program that keeps
\* reading the video status register see bit 7 set in the end).
C36_VideoClockFollowsCpu ==
    [][(status = "running" /\ Stepped /\ status' = "running") =>
        system'.ppu.clock > system.ppu.clock]_vars

\* the opcodes of ORA, AND, EOR, ADC, LDA, CMP and SBC: the pattern
\* fff mmm 01 with family fff other than 4 (STA)
AccumulatorReadOpcodes == {op \in 0 .. 255 : op % 4 = 1 /\ op \div 32 # 4}

\* the base cycles of the claim, by the addressing mode bits mmm: (zp,X) 6,
\* zero page 3, immediate 2, absolute 4, (zp),Y 5, zero page,X 4,
\* absolute,Y 4, absolute,X 4
BaseCycles(opcode) ==
    <<6, 3, 2, 4, 5, 4, 4, 4>>[((opcode \div 4) % 8) + 1]

\* the page-cross penalty of the instruction at cpu.pc
PageCrossPenalty(opcode) ==
    IF opcode \in AbsoluteXOpcodes \cup AbsoluteYOpcodes \cup IndirectYOpcodes
       /\ (IndexedBase(opcode) + IndexOf(opcode)) \div 256 # IndexedBase(opcode) \div 256
        THEN 1
    ELSE 0

\* C37: a completed step of LDA charges the base cycles that ORA, AND, EOR,
\* ADC, SBC and CMP charge in the same addressing mode (immediate 2, zero
\* page 3, zero page,X 4, absolute 4, absolute,X 4, absolute,Y 4, (zp,X) 6,
\* (zp),Y 5), plus the page-cross penalty if there is one.
C37_BaseCyclesByMode ==
    [][\A opcode \in AccumulatorReadOpcodes :
        (Fetches(opcode) /\ Stepped /\ status' = "running") =>
            cpu'.clock - cpu.clock = BaseCycles(opcode) + PageCrossPenalty(opcode)]_vars

====
